---- MODULE Spec2Model ----
(***************************************************************************)
(* Model of the event -> signal -> order pipeline.                         *)
(*                                                                         *)
(*   SpecPM   the Position Manager (src/src/position.rs): one round of     *)
(*            PositionManager::start per received (metrics, signal) pair,  *)
(*            with the chain (RPC answers, landing of transactions) as     *)
(*            the environment.                                             *)
(*   SpecAgg  the Aggregator (src/src/aggregator.rs): per-token windows,   *)
(*            threshold trigger, Create / Trade / Migrate and the sweeper. *)
(***************************************************************************)
EXTENDS Integers, Sequences, FiniteSets, TLC

VARIABLES
    \* ---- Position Manager ----
    positions,      \* entries of the positions HashMap: [mint, token_amount]
    chainBalance,   \* the wallet's on-chain token balance per mint
    pc,             \* where PositionManager::start stands in its loop body
    cur,            \* metrics.mint of the (metrics, signal) pair being handled
    todo,           \* monitor_positions: snapshot entries not yet monitored
    monitored,      \* the position whose alerts are being handled, and the
                    \* rank of the last alert taken from its alert list
    lastAlert,      \* what the last step did with the alert it took
    lastBuy,        \* what the handle_buy_signal call of the last step did
    lastSell,       \* what the handle_sell_signal call of the last step did
    \* ---- Aggregator ----
    windows,        \* DashMap mint -> MintWindow
    event_history,  \* DashMap mint -> VecDeque<PumpFunEvent>
    now,            \* the clock (cached_time / Utc::now), in seconds
    lastMetrics,    \* the WindowMetrics sent on metrics_tx by the last step
    thresholdEmits, \* per mint: metrics records sent with threshold_buy_amount
    \* ---- MintWindow::add_event on its own ----
    lastAdd,        \* what the last add_event call removed
    \* ---- source -> event ring -> Aggregator -> metrics channel -> Strategy ----
    event_queue,    \* the ArrayQueue<SniperEvent> between source and Aggregator
    produced,       \* number of events the source has parsed so far
    sending,        \* the record the Aggregator is at metrics_tx.send(..).await with
    metrics_chan,   \* the records buffered in the metrics channel
    received,       \* trades whose record Strategy got from metrics_rx.recv()
    accepted,       \* trades that passed the filter, in the order they were handled
    lastFlow,       \* what the last step of the pipeline did
    \* ---- LightSpeedBuyExecutor::send_transaction_with_priority ----
    racePc,         \* where the sender is: new, idle, round, sleep, lightspeed, done
    raceCfg,        \* swqos_manager (Some/None), its clients and its SwqosConfig
    transaction,    \* the transaction the current call was given
    attempt,        \* the loop variable of send_transaction_race
    rounds,         \* rounds run by the current call
    waits,          \* 200 ms sleeps taken by the current call
    lastRound,      \* the outcomes and the result of the call's latest round
    sentVia,        \* how the current call ended
    sent_transactions, \* the transactions the current call handed to a submitter or to LightSpeed
    \* ---- LightSpeedBuyExecutor::execute_buy ----
    lastExec,       \* what the last execute_buy call read, required and did
    \* ---- StrategyEngine::start and the PositionManager loop behind it ----
    stratPending,   \* the pair Strategy is at signal_tx.send(..).await with
    signal_chan,    \* the pairs buffered in the signal channel
    holdSecs,       \* seconds since entry_time, per held token
    lastStrat,      \* what Strategy did with the record it consumed last
    lastPair,       \* what the Position Manager did with the pair it got last
    lastEval,       \* the last call of a pure function: its inputs and its result
    \* ---- main: the spawned tasks, and the event source's reconnect loop ----
    tasks,          \* the state of each spawned task
    retry_count,    \* subscribe_with_reconnect's counter
    failures,       \* consecutive failed subscriptions so far
    delay_ms,       \* the wait before the reconnect in progress
    \* ---- AdvancedEventFilter ----
    filterCfg,      \* the AdvancedFilterConfig the filter was built with
    dev_trades,     \* HashSet of mints that had a dev trade
    frequency_tracker, \* HashMap mint -> (count, last_reset)
    seen_events,    \* HashMap event hash -> time it was recorded
    stats,          \* FilterStats
    filterNow,      \* Utc::now() in milliseconds
    lastFilter,     \* the last call of filter: its event, what it found, its result
    traded,         \* the mints of the trades handed to filter so far
    dev_carried,    \* the mints of those that carried is_dev_trade
    last_accepted,  \* per event hash, the time filter last returned Ok for it
    \* ---- the aggregator task and the sweeper task side by side ----
    aggPc,          \* where the aggregator task is inside the event it handles
    sweepPc         \* where the sweeper is inside cleanup_old_windows

pmVars  == <<positions, chainBalance, pc, cur, todo, monitored, lastAlert, lastBuy, lastSell>>
aggVars == <<windows, event_history, now, lastMetrics, thresholdEmits>>
winVars == <<lastAdd>>
flowVars == <<event_queue, produced, sending, metrics_chan, received, accepted, lastFlow>>
raceVars == <<racePc, raceCfg, transaction, attempt, rounds, waits, lastRound, sentVia,
              sent_transactions>>
buyVars == <<lastExec>>
stratVars == <<stratPending, signal_chan, holdSecs, lastStrat, lastPair, lastEval>>
mainVars == <<tasks, retry_count, failures, delay_ms>>
filterVars == <<filterCfg, dev_trades, frequency_tracker, seen_events, stats,
                filterNow, lastFilter, traded, dev_carried, last_accepted>>
sweepVars == <<aggPc, sweepPc>>
\* what the aggregator and the sweeper leave alone
notSweep == <<pmVars, winVars, flowVars, raceVars, buyVars, stratVars, mainVars, filterVars>>
vars    == <<pmVars, aggVars, winVars, flowVars, raceVars, buyVars, stratVars, mainVars, filterVars, sweepVars>>
\* what the Position Manager leaves alone
notPM   == <<aggVars, winVars, flowVars, raceVars, buyVars, stratVars, mainVars, filterVars, sweepVars>>
\* what the Aggregator's handlers leave alone
notAgg  == <<pmVars, winVars, raceVars, buyVars, stratVars, mainVars, filterVars, sweepVars>>

(***************************************************************************)
(* Bounds of the model.                                                    *)
(***************************************************************************)
Tokens       == {"t1", "t2"}
MaxPositions == 1      \* config.max_positions (validated > 0)
MaxBalance   == 2      \* token amounts range over 0..MaxBalance
PollBudget   == 2      \* status queries that fit before the poll's deadline

Min(a, b) == IF a < b THEN a ELSE b

(***************************************************************************)
(* The positions map.  A HashMap is modelled by the set of its entries, so *)
(* that "one entry per key" is a property of insert, not of the type.      *)
(***************************************************************************)
contains_key(ps, mint) == \E p \in ps : p.mint = mint

get(ps, mint) == CHOOSE p \in ps : p.mint = mint

insert(ps, entry) == {p \in ps : p.mint # entry.mint} \cup {entry}

remove(ps, mint) == {p \in ps : p.mint # mint}

(***************************************************************************)
(* RiskAlert::severity.  Values are percentages.                           *)
(***************************************************************************)
Medium   == 1
High     == 2
Critical == 3

Alerts ==
    {[kind |-> "PriceVolatility",     value |-> v, rank |-> 1] : v \in {30, 60}} \cup
    {[kind |-> "LiquidityDrop",       value |-> v, rank |-> 2] : v \in {40, 60}} \cup
    {[kind |-> "LargeSellDetected",   value |-> v, rank |-> 3] : v \in {0}} \cup
    {[kind |-> "RugPullSignal",       value |-> v, rank |-> 4] : v \in {80, 100}} \cup
    {[kind |-> "LiquidityExhaustion", value |-> v, rank |-> 5] : v \in {5, 10}}

Abs(x) == IF x < 0 THEN -x ELSE x

severity(alert) ==
    CASE alert.kind = "RugPullSignal" ->
            IF alert.value > 80 THEN Critical ELSE High
      [] alert.kind = "LiquidityExhaustion" ->
            IF alert.value < 10 THEN Critical ELSE High
      [] alert.kind = "LargeSellDetected" -> High
      [] alert.kind = "PriceVolatility" ->
            IF Abs(alert.value) > 50 THEN High ELSE Medium
      [] alert.kind = "LiquidityDrop" ->
            IF alert.value > 50 THEN High ELSE Medium

\* monitor_positions: the alerts that make it call handle_sell_signal.
triggers_emergency_sell_any_high(alert) == severity(alert) >= High

triggers_emergency_sell(alert) ==
    severity(alert) >= High /\ severity(alert) = Critical

(***************************************************************************)
(* The chain as the RPC client shows it.                                   *)
(***************************************************************************)
\* What becomes of a transaction that was sent.
Landings == {"ok", "failed", "dropped"}

\* One answer of get_signature_statuses for the transaction.
StatusAnswers(landing) ==
    {[kind |-> "rpc_err", confirmation_status |-> FALSE, err |-> FALSE],
     [kind |-> "none",    confirmation_status |-> FALSE, err |-> FALSE]} \cup
    IF landing = "dropped" THEN {}
    ELSE {[kind |-> "status", confirmation_status |-> c, err |-> (landing = "failed")]
            : c \in BOOLEAN}

\* The answers the poll gets before its deadline.
StatusRuns(landing) == [1..PollBudget -> StatusAnswers(landing)]

\* RealTimeMonitor::poll_transaction_confirmation: the index of the answer that
\* ends the loop, Len + 1 when the deadline ends it.
RECURSIVE poll_stop(_, _)
poll_stop(answers, i) ==
    IF i > Len(answers) THEN i
    ELSE IF answers[i].kind = "status" /\ answers[i].confirmation_status THEN i
    ELSE IF answers[i].kind = "status" /\ answers[i].err THEN i
    ELSE poll_stop(answers, i + 1)

poll_transaction_confirmation(answers) ==
    LET i == poll_stop(answers, 1) IN
    IF i > Len(answers) THEN "timeout"
    ELSE IF answers[i].confirmation_status THEN "confirmed"
    ELSE "failed"

\* Whether an answer the poll read carried the transaction's error.
chain_reported_failure(answers) ==
    \E i \in 1..Min(poll_stop(answers, 1), Len(answers)) :
        answers[i].kind = "status" /\ answers[i].err

\* SolTradeSellExecutor::get_token_balance.  rpc is what the RPC call did.
BalanceReads == {"ok", "rpc_err", "parse_err"}

get_token_balance(rpc, balance) ==
    CASE rpc = "ok"        -> [ok |-> TRUE,  amount |-> balance]
      [] rpc = "rpc_err"   -> [ok |-> TRUE,  amount |-> 0]
      [] rpc = "parse_err" -> [ok |-> FALSE, amount |-> 0]

\* SolTradeSellExecutor::send_transaction_with_retry: attempts[i] is whether
\* send_transaction succeeds at attempt i.
SellMaxAttempts == 3

send_transaction_with_retry(attempts) ==
    \E i \in 1..SellMaxAttempts : attempts[i]

SendAttempts == [1..SellMaxAttempts -> BOOLEAN]

(***************************************************************************)
(* handle_buy_signal                                                       *)
(***************************************************************************)
NoBuy == [op |-> "none"]

buy_allowed_unconditionally(ps, mint) == TRUE

buy_allowed_no_max_check(ps, mint) == ~contains_key(ps, mint)

\* The two early returns at the head of handle_buy_signal.
buy_allowed(ps, mint) ==
    /\ ~contains_key(ps, mint)
    /\ ~(Cardinality(ps) >= MaxPositions)

BuyLog(mint, submitted, sent, poll, reported, landing) ==
    [op |-> "buy", mint |-> mint,
     heldBefore |-> contains_key(positions, mint),
     countBefore |-> Cardinality(positions),
     submitted |-> submitted, sent |-> sent, poll |-> poll,
     reportedFailure |-> reported, landing |-> landing]

\* What the confirmation poll returns and saw, over the answers it can get.
PollResults(landing) ==
    {[poll |-> poll_transaction_confirmation(answers),
      reported |-> chain_reported_failure(answers)] : answers \in StatusRuns(landing)}

\* The token amount handle_buy_signal records: the balance read, or on Err
\* the estimator's value.
RecordedAmounts(balance) ==
    {get_token_balance(rpc, balance).amount : rpc \in {"ok", "rpc_err"}}
        \cup (0..MaxBalance)

handle_buy_signal(mint) ==
    /\ lastSell' = [op |-> "none"]
    /\ IF ~buy_allowed(positions, mint)
       THEN /\ lastBuy' = BuyLog(mint, FALSE, FALSE, "none", FALSE, "none")
            /\ UNCHANGED <<positions, chainBalance>>
       ELSE \/ \* derive_associated_bonding_curve(..)? fails on the mint account read
               /\ lastBuy' = BuyLog(mint, FALSE, FALSE, "none", FALSE, "none")
               /\ UNCHANGED <<positions, chainBalance>>
            \/ \* lightspeed_buy.execute_buy returns Err
               /\ lastBuy' = BuyLog(mint, TRUE, FALSE, "none", FALSE, "none")
               /\ UNCHANGED <<positions, chainBalance>>
            \/ \* execute_buy returns Ok(signature)
               \E landing \in Landings :
               \E balance \in IF landing = "ok"
                              THEN {b \in 1..MaxBalance : b > chainBalance[mint]}
                              ELSE {chainBalance[mint]} :
               \E res \in PollResults(landing) :
               /\ chainBalance' = [chainBalance EXCEPT ![mint] = balance]
               /\ lastBuy' = BuyLog(mint, TRUE, TRUE, res.poll, res.reported, landing)
               /\ IF res.poll = "confirmed"
                  THEN \/ \E actual_token_amount \in RecordedAmounts(balance) :
                          positions' = insert(positions,
                              [mint |-> mint, token_amount |-> actual_token_amount])
                       \/ \* get_creator_from_bonding_curve(..)? returns Err
                          UNCHANGED positions
                  ELSE UNCHANGED positions

(***************************************************************************)
(* handle_sell_signal                                                      *)
(***************************************************************************)
NoSell == [op |-> "none"]

sell_amount_recorded(actual_balance, token_amount) == token_amount

\* let sell_amount = actual_balance.min(position.token_amount)
sell_amount(actual_balance, token_amount) == Min(actual_balance, token_amount)

positions_after_sent_if_confirmed(ps, mint, poll) ==
    IF poll = "confirmed" THEN remove(ps, mint) ELSE ps

\* After execute_sell returned Ok: the poll's result is only logged.
positions_after_sent(ps, mint, poll) == remove(ps, mint)

positions_after_send_failure_removed(ps, mint) == remove(ps, mint)

\* After execute_sell returned Err: return Err(e), the map untouched.
positions_after_send_failure(ps, mint) == ps

\* execute_sell up to the send: build_sell_instructions, then the retried send.
ExecuteSellResults ==
    {built /\ send_transaction_with_retry(attempts) :
        built \in BOOLEAN, attempts \in SendAttempts}

SellLog(mint, via, sev, held, rpc, recorded, submitted, amount, sent, poll) ==
    [op |-> "sell", mint |-> mint, via |-> via, severity |-> sev, held |-> held,
     read |-> rpc, balance |-> chainBalance[mint], recorded |-> recorded,
     submitted |-> submitted, amount |-> amount, sent |-> sent, poll |-> poll]

handle_sell_signal(mint, via, sev) ==
    /\ lastBuy' = NoBuy
    /\ IF ~contains_key(positions, mint)
       THEN /\ lastSell' = SellLog(mint, via, sev, FALSE, "none", 0, FALSE, 0, FALSE, "none")
            /\ UNCHANGED <<positions, chainBalance>>
       ELSE \E rpc \in BalanceReads :
            LET position == get(positions, mint)
                read     == get_token_balance(rpc, chainBalance[mint])
                amount   == IF read.ok
                            THEN sell_amount(read.amount, position.token_amount)
                            ELSE position.token_amount
            IN
            IF read.ok /\ amount = 0
            THEN /\ positions' = remove(positions, mint)
                 /\ lastSell' = SellLog(mint, via, sev, TRUE, rpc, position.token_amount,
                                        FALSE, 0, FALSE, "none")
                 /\ UNCHANGED chainBalance
            ELSE \E sent \in ExecuteSellResults :
                 IF ~sent
                 THEN /\ positions' = positions_after_send_failure(positions, mint)
                      /\ lastSell' = SellLog(mint, via, sev, TRUE, rpc, position.token_amount,
                                             TRUE, amount, FALSE, "none")
                      /\ UNCHANGED chainBalance
                 ELSE \E landing \in Landings :
                      \E res \in PollResults(landing) :
                      \* the transfer lands only if the account holds the amount
                      /\ landing = "ok" => amount <= chainBalance[mint]
                      /\ chainBalance' =
                            IF landing = "ok"
                            THEN [chainBalance EXCEPT ![mint] = @ - amount]
                            ELSE chainBalance
                      /\ positions' = positions_after_sent(positions, mint, res.poll)
                      /\ lastSell' = SellLog(mint, via, sev, TRUE, rpc, position.token_amount,
                                             TRUE, amount, TRUE, res.poll)

(***************************************************************************)
(* PositionManager::start: one loop iteration per received pair.           *)
(***************************************************************************)
NoPair      == [mint |-> "none"]
NoMonitored == [mint |-> "none", rank |-> 0]
NoAlert     == [op |-> "none"]

NoCall == lastBuy' = NoBuy /\ lastSell' = NoSell

\* signal_rx.recv().  Nothing reads the signal of the pair before the match
\* that dispatches it, so the signal is drawn there: the four dispatch_*
\* actions are the four values a received signal can have.
start_recv ==
    /\ pc = "recv"
    /\ \E mint \in Tokens : cur' = [mint |-> mint]
    /\ pc' = "decay"
    /\ NoCall /\ lastAlert' = NoAlert
    /\ UNCHANGED <<positions, chainBalance, todo, monitored>>
    /\ UNCHANGED notPM

check_momentum_decay ==
    /\ pc = "decay"
    /\ IF ~contains_key(positions, cur.mint)
       THEN NoCall /\ UNCHANGED <<positions, chainBalance>>
       ELSE \/ \* detector.detect(metrics) is Some(reason)
               handle_sell_signal(cur.mint, "decay", 0)
            \/ \* detector.detect(metrics) is None
               NoCall /\ UNCHANGED <<positions, chainBalance>>
    \* monitor_positions starts with a snapshot of the map
    /\ todo' = {p.mint : p \in positions'}
    /\ pc' = "monitor"
    /\ UNCHANGED <<cur, monitored, lastAlert>>
    /\ UNCHANGED notPM

\* monitor_positions: the next position of the snapshot is monitored.
monitor_positions ==
    /\ pc = "monitor"
    /\ NoCall /\ lastAlert' = NoAlert
    /\ UNCHANGED <<positions, chainBalance, cur>>
    /\ IF todo = {}
       THEN /\ pc' = "dispatch"
            /\ monitored' = NoMonitored
            /\ UNCHANGED todo
       ELSE \E mint \in todo :
            /\ todo' = todo \ {mint}
            /\ \/ \* monitor_position returned Err: continue
                  /\ pc' = "monitor"
                  /\ monitored' = NoMonitored
               \/ \* monitor_position returned Ok(alerts)
                  /\ pc' = "alerts"
                  /\ monitored' = [mint |-> mint, rank |-> 0]
    /\ UNCHANGED notPM

\* monitor_positions, `for alert in alerts`: the next alert of the list.
\* monitor_position pushes at most one alert of each kind, in the order of
\* their ranks, so the next alert is any alert of a higher rank than the last.
handle_alert ==
    /\ pc = "alerts"
    /\ \E alert \in {a \in Alerts : a.rank > monitored.rank} :
       /\ IF triggers_emergency_sell(alert)
          THEN /\ handle_sell_signal(monitored.mint, "alert", severity(alert))
               /\ lastAlert' = [op |-> "alert", mint |-> monitored.mint,
                                severity |-> severity(alert), sold |-> TRUE]
          ELSE /\ NoCall
               /\ lastAlert' = [op |-> "alert", mint |-> monitored.mint,
                                severity |-> severity(alert), sold |-> FALSE]
               /\ UNCHANGED <<positions, chainBalance>>
       /\ monitored' = [monitored EXCEPT !.rank = alert.rank]
    /\ UNCHANGED <<pc, cur, todo>>
    /\ UNCHANGED notPM

\* monitor_positions: the alert list of the monitored position is exhausted.
alerts_done ==
    /\ pc = "alerts"
    /\ pc' = "monitor"
    /\ monitored' = NoMonitored
    /\ NoCall /\ lastAlert' = NoAlert
    /\ UNCHANGED <<positions, chainBalance, cur, todo>>
    /\ UNCHANGED notPM

\* StrategySignal::Buy
dispatch_buy ==
    /\ pc = "dispatch"
    /\ handle_buy_signal(cur.mint)
    /\ pc' = "recv" /\ cur' = NoPair
    /\ UNCHANGED <<todo, monitored, lastAlert>>
    /\ UNCHANGED notPM

\* StrategySignal::Sell
dispatch_sell ==
    /\ pc = "dispatch"
    /\ handle_sell_signal(cur.mint, "sell", 0)
    /\ pc' = "recv" /\ cur' = NoPair
    /\ UNCHANGED <<todo, monitored, lastAlert>>
    /\ UNCHANGED notPM

\* StrategySignal::Hold: handle_hold_signal
dispatch_hold ==
    /\ pc = "dispatch"
    /\ IF ~contains_key(positions, cur.mint)
       THEN NoCall /\ UNCHANGED <<positions, chainBalance>>
       ELSE \/ \* strategy.evaluate_exit_conditions(..) == StrategySignal::Sell
               handle_sell_signal(cur.mint, "hold", 0)
            \/ \* any other exit signal
               NoCall /\ UNCHANGED <<positions, chainBalance>>
    /\ pc' = "recv" /\ cur' = NoPair
    /\ UNCHANGED <<todo, monitored, lastAlert>>
    /\ UNCHANGED notPM

\* StrategySignal::None
dispatch_none ==
    /\ pc = "dispatch"
    /\ NoCall
    /\ pc' = "recv" /\ cur' = NoPair
    /\ UNCHANGED <<positions, chainBalance, todo, monitored, lastAlert>>
    /\ UNCHANGED notPM

(***************************************************************************)
(* The Aggregator (src/src/aggregator.rs).  Amounts are in SOL, times in   *)
(* seconds.                                                                *)
(***************************************************************************)
AggTokens     == {"t1"}  \* the tokens the event stream is about
MaxTime       == 3     \* the clock stops at MaxTime
MaxSol        == 2     \* a trade moves 1..MaxSol SOL
MaxLag        == 1     \* a trade's timestamp is at most MaxLag behind the clock
MaxCumulative == 3     \* cap of a window's cumulative_buys_sol
MaxHistory    == 3     \* cap of the length of a token's event history
MaxEmits      == 2     \* thresholdEmits stops counting at MaxEmits

\* Config: the values of one validated configuration.
WindowDurationSecs        == 1
WindowMaxEvents           == 2
ObservationWindowSecs     == 1
ThresholdCumulativeBuySol == 2
WindowTtlSecs             == 2

\* threshold_buy_ratio is in percent; the buy amounts are in 1/100 SOL.
config ==
    [window_duration_secs              |-> WindowDurationSecs,
     window_max_events                 |-> WindowMaxEvents,
     enable_threshold_trigger          |-> TRUE,
     threshold_observation_window_secs |-> ObservationWindowSecs,
     threshold_cumulative_buy_sol      |-> ThresholdCumulativeBuySol,
     threshold_buy_ratio               |-> 50,
     threshold_min_buy_amount_sol      |-> 10,
     threshold_max_buy_amount_sol      |-> 120,
     aggregator_window_ttl_secs        |-> WindowTtlSecs]

Max(a, b) == IF a > b THEN a ELSE b

None == -1

NoWindow == [exists |-> FALSE]

NoHistory == [exists |-> FALSE]

NoMetrics == [op |-> "none"]

NoAdd == [op |-> "none"]

NoCfg == [swqos |-> FALSE, clients |-> 0, max_retries |-> 0, parallel_send |-> FALSE]

NoRound == [op |-> "none"]

NoSent == [via |-> "none", ok |-> FALSE, transaction |-> "none"]

NoExec == [op |-> "none"]

NoPending == [signal |-> "none"]

NoStrat == [op |-> "none"]

NoEval == [op |-> "none"]

AggIdle   == [at |-> "idle"]
SweepIdle == [at |-> "idle"]
\* The tasks main spawns.
NoFilterCfg == [built |-> FALSE]
NoTrack     == [present |-> FALSE]
NoFilter    == [op |-> "none"]
FilterReasons ==
    {"AmountTooSmall", "AmountTooLarge", "MissingDevTrade", "BlacklistedAddress",
     "NotWhitelisted", "OutsideTimeWindow", "AbnormalFrequency", "DuplicateEvent"}
\* FilterStats::default()
NoStats ==
    [total_events |-> 0, passed_events |-> 0, filtered_events |-> 0,
     filter_reasons |-> [r \in FilterReasons |-> 0]]
TaskNames == {"grpc", "aggregator", "strategy", "position", "cleanup"}

NoFlow == [op |-> "none", id |-> 0, kind |-> "none", verdict |-> "none", is_err |-> FALSE]

\* MintWindow::new, created at the time created.
MintWindow_new(created) ==
    [exists |-> TRUE, created_at |-> created, events |-> <<>>,
     cumulative_buys_sol |-> 0, threshold_triggered |-> FALSE]

\* add_event: pop the front while it is older than the cutoff.
RECURSIVE drop_expired(_, _)
drop_expired(events, cutoff_time) ==
    IF events # <<>> /\ Head(events).timestamp < cutoff_time
    THEN drop_expired(Tail(events), cutoff_time)
    ELSE events

drop_excess_newest(events, max_events) ==
    IF Len(events) > max_events THEN SubSeq(events, 1, max_events) ELSE events

\* add_event: pop the front while there are more than max_events events.
RECURSIVE drop_excess(_, _)
drop_excess(events, max_events) ==
    IF Len(events) > max_events
    THEN drop_excess(Tail(events), max_events)
    ELSE events

\* MintWindow::add_event
add_event(window, event, max_events, window_duration, time) ==
    [window EXCEPT
        !.cumulative_buys_sol = IF event.is_buy THEN @ + event.sol_amount ELSE @,
        !.events = drop_excess(drop_expired(Append(@, event), time - window_duration),
                               max_events)]

\* MintWindow::check_threshold_trigger: whether it returns Some(buy_amount).
threshold_fires(window, time) ==
    /\ config.enable_threshold_trigger
    /\ ~window.threshold_triggered
    /\ ~(time - window.created_at > config.threshold_observation_window_secs)
    /\ window.cumulative_buys_sol >= config.threshold_cumulative_buy_sol

\* MintWindow::check_threshold_trigger: the amount and the window it leaves.
check_threshold_trigger(window, time) ==
    IF threshold_fires(window, time)
    THEN [buy_amount |->
             Min(Max(config.threshold_cumulative_buy_sol * config.threshold_buy_ratio,
                     config.threshold_min_buy_amount_sol),
                 config.threshold_max_buy_amount_sol),
          window |-> [window EXCEPT !.threshold_triggered = TRUE]]
    ELSE [buy_amount |-> None, window |-> window]

RECURSIVE sum_sol(_, _)
sum_sol(events, is_buy) ==
    IF events = <<>> THEN 0
    ELSE (IF Head(events).is_buy = is_buy THEN Head(events).sol_amount ELSE 0)
            + sum_sol(Tail(events), is_buy)


RECURSIVE signed_inflow(_)
\* the sum of e.sol_amount for buys and -e.sol_amount for sells
signed_inflow(events) ==
    IF events = <<>> THEN 0
    ELSE (IF Head(events).is_buy THEN Head(events).sol_amount
                                 ELSE 0 - Head(events).sol_amount)
            + signed_inflow(Tail(events))

\* The f64 the halves give: 0.0, INFINITY, or second / first.
acceleration_of_halves(events) ==
    LET mid_point == Len(events) \div 2
        first_half_inflow  == signed_inflow(SubSeq(events, 1, mid_point))
        second_half_inflow == signed_inflow(SubSeq(events, mid_point + 1, Len(events)))
    IN  IF first_half_inflow <= 0
        THEN (IF second_half_inflow > 0
              THEN [kind |-> "inf", num |-> 0, den |-> 1]
              ELSE [kind |-> "zero", num |-> 0, den |-> 1])
        ELSE [kind |-> "ratio", num |-> second_half_inflow, den |-> first_half_inflow]

\* An acceleration taken from the halves of a window of any length.
calculate_acceleration_any_length(events) == acceleration_of_halves(events)

\* MintWindow::calculate_acceleration
calculate_acceleration(events) ==
    IF Len(events) < 4
    THEN [kind |-> "zero", num |-> 0, den |-> 1]
    ELSE acceleration_of_halves(events)

\* MintWindow::calculate_metrics, the counts and sums it is made of.
calculate_metrics(mint, window) ==
    [op |-> "metrics", mint |-> mint,
     event_count    |-> Len(window.events),
     buy_count      |-> Cardinality({i \in 1..Len(window.events) : window.events[i].is_buy}),
     net_inflow_sol |-> sum_sol(window.events, TRUE) - sum_sol(window.events, FALSE)]

\* The events a trade can carry at the time time.
TradeEvents(time) ==
    [is_buy : BOOLEAN, sol_amount : 1..MaxSol, timestamp : Max(0, time - MaxLag)..time]

AdvancedMinEvents == 5
HistoryMaxEvents  == 100

\* handle_trade_event: push_back, then pop the front while above the cap.
history_push(history) ==
    [exists |-> TRUE,
     len |-> Min((IF history.exists THEN history.len ELSE 0) + 1, HistoryMaxEvents)]

\* AdvancedEventFilter::filter: "pass", or the stage that rejected the event.
FilterVerdicts ==
    {"pass", "amount_range", "dev_trade", "blacklist", "whitelist",
     "time_window", "frequency", "duplicate"}

filter_never_rejects(verdict) == FALSE

\* Aggregator::handle_trade_event: `if let Err(reason) = self.filter.filter(..)`
filter_rejects(verdict) == verdict # "pass"

\* Aggregator::handle_trade_event.  verdict is what the filter returned.
handle_trade_event(mint, event, verdict) ==
    /\ UNCHANGED <<now, notAgg>>
    /\ IF filter_rejects(verdict)
       THEN /\ lastMetrics' = NoMetrics
            /\ UNCHANGED <<windows, event_history, thresholdEmits>>
       ELSE LET window == IF windows[mint].exists THEN windows[mint]
                          ELSE MintWindow_new(now)
                added  == add_event(window, event, config.window_max_events,
                                    config.window_duration_secs, now)
                check  == check_threshold_trigger(added, now)
                history == history_push(event_history[mint])
            IN
            /\ added.cumulative_buys_sol <= MaxCumulative
            /\ history.len <= MaxHistory
            /\ event_history' = [event_history EXCEPT ![mint] = history]
            /\ windows' = [windows EXCEPT ![mint] = check.window]
            /\ lastMetrics' =
                  [calculate_metrics(mint, check.window) EXCEPT
                      !.op = "metrics"] @@
                  [threshold_buy_amount |-> check.buy_amount,
                   advanced_metrics |-> history.len >= AdvancedMinEvents]
            /\ thresholdEmits' =
                  IF check.buy_amount # None
                  THEN [thresholdEmits EXCEPT ![mint] = Min(@ + 1, MaxEmits)]
                  ELSE thresholdEmits

\* Aggregator::start, SniperEvent::Trade
start_trade ==
    /\ \E mint \in AggTokens, event \in TradeEvents(now), verdict \in FilterVerdicts :
          handle_trade_event(mint, event, verdict)
    /\ UNCHANGED flowVars

\* Aggregator::start, SniperEvent::CreateToken
\* A CreateToken arm that also computes a record for the new window.
handle_create_with_metrics(mint) ==
    /\ windows' = [windows EXCEPT ![mint] = MintWindow_new(now)]
    /\ event_history' = [event_history EXCEPT ![mint] = [exists |-> TRUE, len |-> 1]]
    /\ lastMetrics' = calculate_metrics(mint, MintWindow_new(now))
    /\ UNCHANGED <<now, thresholdEmits, notAgg>>

handle_create(mint) ==
    /\ windows' = [windows EXCEPT ![mint] = MintWindow_new(now)]
    /\ event_history' = [event_history EXCEPT ![mint] = [exists |-> TRUE, len |-> 1]]
    /\ lastMetrics' = NoMetrics
    /\ UNCHANGED <<now, thresholdEmits, notAgg>>

start_create ==
    /\ \E mint \in AggTokens : handle_create(mint)
    /\ UNCHANGED flowVars

\* Aggregator::start, SniperEvent::Migrate
handle_migrate(mint) ==
    /\ windows' = [windows EXCEPT ![mint] = NoWindow]
    /\ event_history' = [event_history EXCEPT ![mint] = NoHistory]
    /\ lastMetrics' = NoMetrics
    /\ UNCHANGED <<now, thresholdEmits, notAgg>>

start_migrate ==
    /\ \E mint \in AggTokens : handle_migrate(mint)
    /\ UNCHANGED flowVars

\* Aggregator::cleanup_old_windows(max_age_secs), run by the sweeper task.
cleanup_old_windows ==
    LET cutoff_time == now - config.aggregator_window_ttl_secs
        kept == [t \in AggTokens |->
                    IF windows[t].exists /\ windows[t].created_at > cutoff_time
                    THEN windows[t] ELSE NoWindow]
    IN
    /\ windows' = kept
    /\ event_history' = [t \in AggTokens |->
                            IF kept[t].exists THEN event_history[t] ELSE NoHistory]
    /\ lastMetrics' = NoMetrics
    /\ UNCHANGED <<now, thresholdEmits, notAgg, flowVars>>

\* The cached_time updater task.
time_updater ==
    /\ now < MaxTime
    /\ now' = now + 1
    /\ lastMetrics' = NoMetrics
    /\ UNCHANGED <<windows, event_history, thresholdEmits, notAgg, flowVars>>

Init ==
    /\ positions = {}
    /\ chainBalance = [t \in Tokens |-> 0]
    /\ pc = "recv"
    /\ cur = NoPair
    /\ todo = {}
    /\ monitored = NoMonitored
    /\ lastAlert = NoAlert
    /\ lastBuy = NoBuy
    /\ lastSell = NoSell
    /\ windows = [t \in AggTokens |-> NoWindow]
    /\ event_history = [t \in AggTokens |-> NoHistory]
    /\ now = 0
    /\ lastMetrics = NoMetrics
    /\ thresholdEmits = [t \in AggTokens |-> 0]
    /\ lastAdd = NoAdd
    /\ event_queue = <<>>
    /\ produced = 0
    /\ sending = NoMetrics
    /\ metrics_chan = <<>>
    /\ received = <<>>
    /\ accepted = <<>>
    /\ lastFlow = NoFlow
    /\ racePc = "new"
    /\ raceCfg = NoCfg
    /\ transaction = "none"
    /\ attempt = 0
    /\ rounds = 0
    /\ waits = 0
    /\ lastRound = NoRound
    /\ sentVia = NoSent
    /\ sent_transactions = {}
    /\ lastExec = NoExec
    /\ stratPending = NoPending
    /\ signal_chan = <<>>
    /\ holdSecs = [t \in Tokens |-> 0]
    /\ lastStrat = NoStrat
    /\ lastPair = NoStrat
    /\ lastEval = NoEval
    /\ tasks = [t \in TaskNames |-> "running"]
    /\ retry_count = 0
    /\ failures = 0
    /\ delay_ms = 0
    /\ filterCfg = NoFilterCfg
    /\ dev_trades = {}
    /\ frequency_tracker = [t \in Tokens |-> NoTrack]
    /\ seen_events = {}
    /\ stats = NoStats
    /\ filterNow = 0
    /\ lastFilter = NoFilter
    /\ traded = {}
    /\ dev_carried = {}
    /\ last_accepted = {}
    /\ aggPc = AggIdle
    /\ sweepPc = SweepIdle

PMNext ==
    \/ start_recv
    \/ check_momentum_decay
    \/ monitor_positions
    \/ handle_alert
    \/ alerts_done
    \/ dispatch_buy
    \/ dispatch_sell
    \/ dispatch_hold
    \/ dispatch_none

SpecPM == Init /\ [][PMNext]_vars

AggNext ==
    \/ start_trade
    \/ start_create
    \/ start_migrate
    \/ cleanup_old_windows
    \/ time_updater

SpecAgg == Init /\ [][AggNext]_vars

(***************************************************************************)
(* MintWindow::add_event on its own: a window is created and events are    *)
(* added to it while the cached time advances.                             *)
(***************************************************************************)
\* The events added here: buys and sells of 1 SOL, of every timestamp.
UnitEvents(time) == {event \in TradeEvents(time) : event.sol_amount = 1}

\* MintWindow::new
win_new ==
    \E mint \in AggTokens :
    /\ windows' = [windows EXCEPT ![mint] = MintWindow_new(now)]
    /\ lastAdd' = NoAdd
    /\ UNCHANGED <<event_history, now, lastMetrics, thresholdEmits, pmVars, flowVars, raceVars, buyVars, stratVars, mainVars, filterVars, sweepVars>>

\* window.add_event(window_event, window_max_events, window_duration, now)
win_add_event ==
    \E mint \in AggTokens, event \in UnitEvents(now) :
    LET added == add_event(windows[mint], event, config.window_max_events,
                           config.window_duration_secs, now)
        fresh == drop_expired(Append(windows[mint].events, event),
                              now - config.window_duration_secs)
    IN
    /\ windows[mint].exists
    /\ added.cumulative_buys_sol <= MaxCumulative
    /\ windows' = [windows EXCEPT ![mint] = added]
    /\ lastAdd' = [op |-> "add", mint |-> mint,
                   expired |-> Len(windows[mint].events) + 1 - Len(fresh),
                   capped  |-> Len(fresh) - Len(added.events)]
    /\ UNCHANGED <<event_history, now, lastMetrics, thresholdEmits, pmVars, flowVars, raceVars, buyVars, stratVars, mainVars, filterVars, sweepVars>>

\* The cached_time updater task, while add_event is looked at on its own.
win_time_updater ==
    /\ now < MaxTime
    /\ now' = now + 1
    /\ lastAdd' = NoAdd
    /\ UNCHANGED <<windows, event_history, lastMetrics, thresholdEmits, pmVars, flowVars, raceVars, buyVars, stratVars, mainVars, filterVars, sweepVars>>

WinNext ==
    \/ win_new
    \/ win_add_event
    \/ win_time_updater

SpecWin == Init /\ [][WinNext]_vars

(***************************************************************************)
(* The pipeline: the gRPC source pushes parsed events on the event ring,   *)
(* the Aggregator pops them, and every record it computes goes through the *)
(* bounded metrics channel to the Strategy task.                           *)
(***************************************************************************)
EventQueueCapacity == 2      \* config.event_queue_capacity
MetricsCapacity    == 1      \* the size given to mpsc::channel for metrics
MaxProduced        == 3      \* events the source parses in one run

NoEvent == [is_buy |-> FALSE, sol_amount |-> 0, timestamp |-> 0]

\* The SniperEvent values the source can parse at the time time.
SniperEvents(time) ==
    {[kind |-> "Trade", mint |-> mint, event |-> event] :
        mint \in AggTokens, event \in UnitEvents(time)}
    \cup {[kind |-> kind, mint |-> mint, event |-> NoEvent] :
        kind \in {"CreateToken", "Migrate"}, mint \in AggTokens}

\* ArrayQueue::force_push: makes room by dropping the oldest element.
queue_force_push(queue, event, capacity) ==
    IF Len(queue) < capacity
    THEN [is_err |-> FALSE, queue |-> Append(queue, event)]
    ELSE [is_err |-> FALSE, queue |-> Append(Tail(queue), event)]

\* ArrayQueue::push: Err(event) when the ring is full, the ring untouched.
queue_push(queue, event, capacity) ==
    IF Len(queue) < capacity
    THEN [is_err |-> FALSE, queue |-> Append(queue, event)]
    ELSE [is_err |-> TRUE, queue |-> queue]

\* GrpcClient::handle_update: parse, push, log an error if the push failed.
handle_update ==
    /\ produced < MaxProduced
    /\ \E parsed \in SniperEvents(now) :
         LET id     == produced + 1
             pushed == queue_push(event_queue, parsed @@ [id |-> id],
                                  EventQueueCapacity)
         IN
         /\ event_queue' = pushed.queue
         /\ produced' = id
         /\ lastFlow' = [op |-> "push", id |-> id, kind |-> parsed.kind,
                         verdict |-> "none", is_err |-> pushed.is_err]
    /\ UNCHANGED <<sending, metrics_chan, received, accepted, aggVars, notAgg>>

\* What handle_trade_event hands to metrics_tx.send: the record of trade id.
metrics_to_send(metrics, id) ==
    IF metrics.op = "metrics"
    THEN [op |-> "metrics", mint |-> metrics.mint, trade |-> id]
    ELSE NoMetrics

\* Aggregator::start, `while let Some(event) = event_queue.pop()`, Trade arm.
pop_trade ==
    /\ sending = NoMetrics
    /\ event_queue # <<>>
    /\ Head(event_queue).kind = "Trade"
    /\ \E verdict \in FilterVerdicts :
         LET popped == Head(event_queue) IN
         /\ handle_trade_event(popped.mint, popped.event, verdict)
         /\ sending' = metrics_to_send(lastMetrics', popped.id)
         /\ accepted' = IF verdict = "pass" THEN Append(accepted, popped.id)
                        ELSE accepted
         /\ lastFlow' = [op |-> "pop", id |-> popped.id, kind |-> "Trade",
                         verdict |-> verdict, is_err |-> FALSE]
    /\ event_queue' = Tail(event_queue)
    /\ UNCHANGED <<produced, metrics_chan, received>>

\* Aggregator::start, CreateToken arm.
pop_create ==
    /\ sending = NoMetrics
    /\ event_queue # <<>>
    /\ Head(event_queue).kind = "CreateToken"
    /\ handle_create(Head(event_queue).mint)
    /\ sending' = metrics_to_send(lastMetrics', Head(event_queue).id)
    /\ lastFlow' = [op |-> "pop", id |-> Head(event_queue).id,
                    kind |-> "CreateToken", verdict |-> "none", is_err |-> FALSE]
    /\ event_queue' = Tail(event_queue)
    /\ UNCHANGED <<produced, metrics_chan, received, accepted>>

\* Aggregator::start, Migrate arm.
pop_migrate ==
    /\ sending = NoMetrics
    /\ event_queue # <<>>
    /\ Head(event_queue).kind = "Migrate"
    /\ handle_migrate(Head(event_queue).mint)
    /\ sending' = metrics_to_send(lastMetrics', Head(event_queue).id)
    /\ lastFlow' = [op |-> "pop", id |-> Head(event_queue).id,
                    kind |-> "Migrate", verdict |-> "none", is_err |-> FALSE]
    /\ event_queue' = Tail(event_queue)
    /\ UNCHANGED <<produced, metrics_chan, received, accepted>>

\* mpsc::Sender::try_send: gives the record up when the channel is full.
chan_try_send(chan, record, capacity) ==
    IF Len(chan) < capacity
    THEN [done |-> TRUE, chan |-> Append(chan, record)]
    ELSE [done |-> TRUE, chan |-> chan]

\* mpsc::Sender::send: the record joins the back once a permit is there; with
\* the channel full the future stays pending and nothing changes.
chan_send(chan, record, capacity) ==
    IF Len(chan) < capacity
    THEN [done |-> TRUE, chan |-> Append(chan, record)]
    ELSE [done |-> FALSE, chan |-> chan]

\* handle_trade_event, `metrics_tx.send(..).await`: the Aggregator task is
\* suspended here until the send is done.
metrics_send ==
    /\ sending # NoMetrics
    /\ LET sent == chan_send(metrics_chan, sending, MetricsCapacity) IN
         /\ sent.done
         /\ metrics_chan' = sent.chan
    /\ sending' = NoMetrics
    /\ lastFlow' = [op |-> "send", id |-> sending.trade, kind |-> "Trade",
                    verdict |-> "pass", is_err |-> FALSE]
    /\ UNCHANGED <<event_queue, produced, received, accepted, aggVars, notAgg>>

\* StrategyEngine::start, `while let Some(metrics_arc) = metrics_rx.recv().await`
strategy_recv ==
    /\ metrics_chan # <<>>
    /\ received' = Append(received, Head(metrics_chan).trade)
    /\ metrics_chan' = Tail(metrics_chan)
    /\ lastFlow' = [op |-> "recv", id |-> Head(metrics_chan).trade,
                    kind |-> "Trade", verdict |-> "pass", is_err |-> FALSE]
    /\ UNCHANGED <<event_queue, produced, sending, accepted, aggVars, notAgg>>

FlowNext ==
    \/ handle_update
    \/ pop_trade
    \/ pop_create
    \/ pop_migrate
    \/ metrics_send
    \/ strategy_recv

SpecFlow == Init /\ [][FlowNext]_vars

\* Tokio runs every spawned task that can make progress: a send that has room
\* completes, and the Strategy loop takes a record that is waiting.
SpecFlowFair ==
    Init /\ [][FlowNext]_vars /\ WF_vars(metrics_send) /\ WF_vars(strategy_recv)

(***************************************************************************)
(* Sending a buy: the SWQOS race (MultiSwqosManager) and the LightSpeed    *)
(* fallback (LightSpeedBuyExecutor::send_transaction_with_priority).       *)
(***************************************************************************)
MaxClients == 2       \* enabled SWQOS services
MaxRetries == 2       \* SWQOS_MAX_RETRIES
MaxLatency == 2       \* latest completion of a submitter inside the timeout

RetryDelayMs == 200

Transactions == {"txA", "txB"}

\* What one submitter's task ends with: inside the timeout a signature or an
\* error after latency, otherwise the timeout's "Timeout" failure.
Outcomes ==
    [kind : {"ok", "err"}, latency : 1..MaxLatency]
        \cup {[kind |-> "timeout", latency |-> MaxLatency + 1]}

RoundOutcomes(clients) == [1..clients -> Outcomes]

\* The configurations LightSpeedBuyExecutor::new can end with.
RaceConfigs ==
    {NoCfg} \cup [swqos : {TRUE}, clients : 0..MaxClients,
                  max_retries : 0..MaxRetries, parallel_send : BOOLEAN]

SwqosResult(service, outcome) ==
    [is_err |-> FALSE, success |-> outcome.kind = "ok", service |-> service,
     latency |-> outcome.latency]

RoundErr == [is_err |-> TRUE, success |-> FALSE, service |-> 0, latency |-> 0]

\* MultiSwqosManager::send_parallel: every task is spawned first, then the
\* handles are awaited in client order up to the first success; with no
\* success the failure of least latency (the first of them) is returned.
send_parallel(outcomes) ==
    LET ok == {i \in DOMAIN outcomes : outcomes[i].kind = "ok"}
        first_success == CHOOSE i \in ok : \A j \in ok : i <= j
        fastest == CHOOSE i \in DOMAIN outcomes :
                      \A j \in DOMAIN outcomes :
                         \/ outcomes[i].latency < outcomes[j].latency
                         \/ outcomes[i].latency = outcomes[j].latency /\ i <= j
    IN  IF ok # {} THEN SwqosResult(first_success, outcomes[first_success])
        ELSE SwqosResult(fastest, outcomes[fastest])

\* MultiSwqosManager::send_sequential: clients in order, the first success
\* is returned, Err when none succeeded.
send_sequential(outcomes) ==
    LET ok == {i \in DOMAIN outcomes : outcomes[i].kind = "ok"}
        first_success == CHOOSE i \in ok : \A j \in ok : i <= j
    IN  IF ok # {} THEN SwqosResult(first_success, outcomes[first_success])
        ELSE RoundErr

\* send_transaction_race up to its loop: Err without a round when there is
\* no client, and `for attempt in 1..=max_retries` runs no round for 0.
race_entry(cfg) ==
    IF ~cfg.swqos THEN "lightspeed"
    ELSE IF cfg.clients = 0 THEN "lightspeed"
    ELSE IF 1 <= cfg.max_retries THEN "round"
    ELSE "lightspeed"

\* A racer that returns its error to the caller when every round failed.
after_round_without_fallback(result, n, max_retries) ==
    IF result.success THEN "done"
    ELSE IF n < max_retries THEN "sleep"
    ELSE "done"

\* send_transaction_race after a round, and what its caller does with the
\* result: Ok is returned at once, a failure is retried after the sleep while
\* attempt < max_retries, and the final Err sends the caller to LightSpeed.
after_round(result, n, max_retries) ==
    IF result.success THEN "done"
    ELSE IF n < max_retries THEN "sleep"
    ELSE "lightspeed"

\* A racer that builds and signs a new transaction for every retry round.
round_submissions_rebuilt(cfg, tx, n, outcomes) ==
    {[client |-> i,
      transaction |-> IF n > 1 THEN CHOOSE other \in Transactions : other # tx
                      ELSE tx] : i \in DOMAIN outcomes}

\* The submitters a round calls send_transaction on, and with what:
\* send_parallel spawns a task with transaction.clone() for every client,
\* send_sequential passes the reference to the clients up to the first
\* success.  n is the attempt of send_transaction_race's loop.
round_submissions(cfg, tx, n, outcomes) ==
    LET ok == {i \in DOMAIN outcomes : outcomes[i].kind = "ok"}
        reached == IF cfg.parallel_send THEN DOMAIN outcomes
                   ELSE {i \in DOMAIN outcomes : \A j \in ok : i <= j}
    IN  {[client |-> i, transaction |-> tx] : i \in reached}

\* LightSpeedBuyExecutor::new: swqos_manager and its configuration.
executor_new ==
    /\ racePc = "new"
    /\ raceCfg' \in RaceConfigs
    /\ racePc' = "idle"
    /\ UNCHANGED <<transaction, attempt, rounds, waits, lastRound, sentVia, sent_transactions,
                   pmVars, aggVars, winVars, flowVars, buyVars, stratVars, mainVars, filterVars, sweepVars>>

\* send_transaction_with_priority is called with a built transaction.
send_transaction_with_priority ==
    /\ racePc \in {"idle", "done"}
    /\ transaction' \in Transactions
    /\ racePc' = race_entry(raceCfg)
    /\ attempt' = 1
    /\ rounds' = 0
    /\ waits' = 0
    /\ lastRound' = NoRound
    /\ sentVia' = NoSent
    /\ sent_transactions' = {}
    /\ UNCHANGED <<raceCfg, pmVars, aggVars, winVars, flowVars, buyVars, stratVars, mainVars, filterVars, sweepVars>>

\* One pass of the loop body of send_transaction_race.
race_round ==
    /\ racePc = "round"
    /\ \E outcomes \in RoundOutcomes(raceCfg.clients) :
         LET result == IF raceCfg.parallel_send THEN send_parallel(outcomes)
                       ELSE send_sequential(outcomes)
         IN
         /\ lastRound' = [op |-> "round", outcomes |-> outcomes,
                          result |-> result, transaction |-> transaction]
         /\ racePc' = after_round(result, attempt, raceCfg.max_retries)
         /\ sentVia' = IF result.success
                       THEN [via |-> "swqos", ok |-> TRUE,
                             transaction |-> transaction]
                       ELSE sentVia
         /\ sent_transactions' = sent_transactions \cup
               {sub.transaction : sub \in round_submissions(raceCfg, transaction,
                                                           attempt, outcomes)}
    /\ rounds' = rounds + 1
    /\ UNCHANGED <<raceCfg, transaction, attempt, waits,
                   pmVars, aggVars, winVars, flowVars, buyVars, stratVars, mainVars, filterVars, sweepVars>>

\* tokio::time::sleep(Duration::from_millis(200)) and the next attempt.
race_sleep ==
    /\ racePc = "sleep"
    /\ waits' = waits + 1
    /\ attempt' = attempt + 1
    /\ racePc' = "round"
    /\ UNCHANGED <<raceCfg, transaction, rounds, lastRound, sentVia, sent_transactions,
                   pmVars, aggVars, winVars, flowVars, buyVars, stratVars, mainVars, filterVars, sweepVars>>

\* LightSpeedBuyExecutor::send_via_lightspeed
send_via_lightspeed ==
    /\ racePc = "lightspeed"
    /\ \E ok \in BOOLEAN :
         sentVia' = [via |-> "lightspeed", ok |-> ok, transaction |-> transaction]
    /\ sent_transactions' = sent_transactions \cup {transaction}
    /\ racePc' = "done"
    /\ UNCHANGED <<raceCfg, transaction, attempt, rounds, waits, lastRound,
                   pmVars, aggVars, winVars, flowVars, buyVars, stratVars, mainVars, filterVars, sweepVars>>

RaceNext ==
    \/ executor_new
    \/ send_transaction_with_priority
    \/ race_round
    \/ race_sleep
    \/ send_via_lightspeed

SpecRace == Init /\ [][RaceNext]_vars

(***************************************************************************)
(* LightSpeedBuyExecutor::execute_buy with its pre-flight balance check,   *)
(* called from handle_buy_signal.                                          *)
(***************************************************************************)
MaxWallet   == 3      \* wallet balance, lamports
MaxTrade    == 2      \* sol_amount of a buy
MaxTip      == 1      \* one tip, LightSpeed's or a service's
MaxServices == 2      \* SWQOS services with a tip account

RECURSIVE sum_tips(_)
sum_tips(tips) ==
    IF tips = <<>> THEN 0 ELSE Head(tips) + sum_tips(Tail(tips))

\* The executor's configuration as far as tips go; tips holds tip_lamports
\* of the manager's services in priority order.
TipConfigs ==
    [use_lightspeed : BOOLEAN, lightspeed_tip : {MaxTip},
     swqos : BOOLEAN, max_tips : 1..MaxServices,
     tips : UNION {[1..n -> 1..MaxTip] : n \in 0..MaxServices}]

\* MultiSwqosManager::get_all_tip_instructions: one transfer per service,
\* truncated to max_tips.
get_all_tip_instructions(cfg) ==
    SubSeq(cfg.tips, 1, Min(Len(cfg.tips), cfg.max_tips))

\* build_buy_instructions_with_all_tips: the lamports the tip transfers of
\* the built transaction move.
transaction_tips(cfg) ==
    (IF cfg.use_lightspeed THEN cfg.lightspeed_tip ELSE 0)
    + (IF cfg.swqos THEN sum_tips(get_all_tip_instructions(cfg)) ELSE 0)

\* A check that counts the LightSpeed tip only.
check_balance_lightspeed_tip_only(balance, required_lamports, cfg) ==
    LET total_tips == IF cfg.use_lightspeed THEN cfg.lightspeed_tip ELSE 0
    IN  ~(balance < required_lamports + total_tips)

\* check_balance_for_operations: TRUE for Ok(()).
check_balance_for_operations(balance, required_lamports, cfg) ==
    LET lightspeed_tip == IF cfg.use_lightspeed THEN cfg.lightspeed_tip ELSE 0
        swqos_tips_total == IF cfg.swqos
                            THEN sum_tips(get_all_tip_instructions(cfg))
                            ELSE 0
        total_required == required_lamports + lightspeed_tip + swqos_tips_total
    IN  ~(balance < total_required)

ExecLog(mint, balance, sol_amount, tips, stage, transmitted) ==
    [op |-> "buy", mint |-> mint, balance |-> balance, sol_amount |-> sol_amount,
     tips |-> tips, stage |-> stage, transmitted |-> transmitted]

\* What the check answers and what the built transaction would tip, over the
\* configurations of the executor.
PreflightResults(balance, sol_amount) ==
    {[passed |-> check_balance_for_operations(balance, sol_amount, cfg),
      tips   |-> transaction_tips(cfg)] : cfg \in TipConfigs}

\* handle_buy_signal past its early returns, with execute_buy spelled out:
\* bonding curve read, balance check, build, send, then the handler's insert
\* when the buy was confirmed.
execute_buy ==
    \E mint \in Tokens, balance \in 0..MaxWallet, sol_amount \in 1..MaxTrade :
    \E check \in PreflightResults(balance, sol_amount) :
    /\ buy_allowed(positions, mint)
    /\ \/ \* get_account_data(bonding_curve) or the decode fails
          /\ lastExec' = ExecLog(mint, balance, sol_amount, check.tips,
                                 "curve_err", FALSE)
          /\ UNCHANGED <<positions, chainBalance>>
       \/ \* get_balance fails inside the check
          /\ lastExec' = ExecLog(mint, balance, sol_amount, check.tips,
                                 "balance_err", FALSE)
          /\ UNCHANGED <<positions, chainBalance>>
       \/ /\ ~check.passed
          /\ lastExec' = ExecLog(mint, balance, sol_amount, check.tips,
                                 "insufficient", FALSE)
          /\ UNCHANGED <<positions, chainBalance>>
       \/ /\ check.passed
          /\ \/ \* the send fails on every path, or the buy is not confirmed
                /\ lastExec' = ExecLog(mint, balance, sol_amount, check.tips,
                                       "sent", TRUE)
                /\ UNCHANGED <<positions, chainBalance>>
             \/ \* sent and confirmed: the handler records the position
                \E token_amount \in 1..MaxBalance :
                /\ lastExec' = ExecLog(mint, balance, sol_amount, check.tips,
                                       "bought", TRUE)
                /\ chainBalance' = [chainBalance EXCEPT ![mint] = token_amount]
                /\ positions' = insert(positions,
                                   [mint |-> mint, token_amount |-> token_amount])
    /\ UNCHANGED <<pc, cur, todo, monitored, lastAlert, lastBuy, lastSell,
                   aggVars, winVars, flowVars, raceVars, stratVars, mainVars, filterVars, sweepVars>>

\* handle_sell_signal seen from the buy side: a held position is closed.
close_position ==
    \E mint \in Tokens :
    /\ contains_key(positions, mint)
    /\ positions' = remove(positions, mint)
    /\ chainBalance' = [chainBalance EXCEPT ![mint] = 0]
    /\ lastExec' = [op |-> "close", mint |-> mint]
    /\ UNCHANGED <<pc, cur, todo, monitored, lastAlert, lastBuy, lastSell,
                   aggVars, winVars, flowVars, raceVars, stratVars, mainVars, filterVars, sweepVars>>

BuyNext ==
    \/ execute_buy
    \/ close_position

SpecBuy == Init /\ [][BuyNext]_vars

(***************************************************************************)
(* Strategy.  Ratios, SOL amounts and accelerations are in hundredths      *)
(* (buy_ratio 75 is 0.75, net_inflow_sol 150 is 1.5 SOL).                  *)
(***************************************************************************)
MaxGrid == 2          \* grid points of a metric above 0

Grid      == {k * 75 : k \in 0..MaxGrid}
RatioGrid == {g \in Grid : g <= 100}
SmallGrid == {k * 4 : k \in 0..MaxGrid}
VolGrid   == {k * 10 : k \in 0..MaxGrid}
CountGrid == {k * 2 : k \in 0..MaxGrid}

NoAdvanced == [present |-> FALSE]

\* AdvancedMetrics, the fields evaluate_buy reads.
AdvancedMetricsSet ==
    [present : {TRUE}, high_frequency_trades : CountGrid,
     liquidity_depth : RatioGrid, avg_price_impact : SmallGrid,
     volatility : VolGrid]

\* DynamicStrategyConfig::conservative / balanced / aggressive, buy_triggers
BuyTriggerSets ==
    {[min_buy_ratio |-> 80, min_net_inflow_sol |-> 150, min_acceleration |-> 150,
      max_slippage |-> 3, min_high_frequency_trades |-> 5,
      min_liquidity_depth |-> 70, max_price_impact |-> 3,
      min_composite_score |-> 70],
     [min_buy_ratio |-> 70, min_net_inflow_sol |-> 100, min_acceleration |-> 120,
      max_slippage |-> 5, min_high_frequency_trades |-> 3,
      min_liquidity_depth |-> 50, max_price_impact |-> 5,
      min_composite_score |-> 50],
     [min_buy_ratio |-> 60, min_net_inflow_sol |-> 50, min_acceleration |-> 100,
      max_slippage |-> 8, min_high_frequency_trades |-> 2,
      min_liquidity_depth |-> 30, max_price_impact |-> 8,
      min_composite_score |-> 30]}

BalancedTriggers == CHOOSE t \in BuyTriggerSets : t.min_buy_ratio = 70

\* adapt_to_volatility: the factor it stores in adaptive_params, in hundredths.
adapt_to_volatility(volatility) ==
    IF volatility > 15 THEN 80
    ELSE IF volatility < 5 THEN 120
    ELSE 100

\* calculate_composite_score, times 20000.
calculate_composite_score(m, adv) ==
    50 * m.buy_ratio + 25 * Min(m.net_inflow_sol, 200)
      + 20 * Min(m.acceleration, 200) + 30 * adv.liquidity_depth
      + 300 * Min(adv.high_frequency_trades, 10)

\* The eight checks of evaluate_buy, in the order of the code.
buy_conditions(m, adv, triggers) ==
    <<m.buy_ratio >= triggers.min_buy_ratio,
      m.net_inflow_sol >= triggers.min_net_inflow_sol,
      m.acceleration >= triggers.min_acceleration,
      adv.high_frequency_trades >= triggers.min_high_frequency_trades,
      adv.liquidity_depth >= triggers.min_liquidity_depth,
      adv.avg_price_impact <= triggers.max_price_impact,
      adv.volatility * 2 <= triggers.max_slippage,
      calculate_composite_score(m, adv) >= 200 * triggers.min_composite_score>>

\* What each passed check adds to confidence, in hundredths.
ConfidenceSteps == <<20, 20, 15, 10, 10, 10, 10, 5>>

\* A scorer that buys on a plain majority of its checks.
pass_rate_majority(passed_conditions, total_conditions) ==
    passed_conditions * 2 > total_conditions

\* let should_buy = pass_rate >= 0.7
pass_rate_reached(passed_conditions, total_conditions) ==
    passed_conditions * 10 >= 7 * total_conditions

\* The running counters of evaluate_buy after its first n checks.
RECURSIVE evaluate_buy_upto(_, _)
evaluate_buy_upto(conditions, n) ==
    IF n = 0
    THEN [passed_conditions |-> 0, total_conditions |-> 0, confidence |-> 0]
    ELSE LET before == evaluate_buy_upto(conditions, n - 1) IN
         [passed_conditions |-> before.passed_conditions
                                  + (IF conditions[n] THEN 1 ELSE 0),
          total_conditions  |-> before.total_conditions + 1,
          confidence        |-> before.confidence
                                  + (IF conditions[n] THEN ConfidenceSteps[n] ELSE 0)]

\* DynamicStrategyEngine::evaluate_buy.  adapt_parameters stores the
\* volatility factor and nothing reads it: the checks use triggers as they are.
evaluate_buy(m, adv, triggers) ==
    LET conditions == buy_conditions(m, adv, triggers)
        counted == evaluate_buy_upto(conditions, Len(conditions))
    IN  [should_buy |-> pass_rate_reached(counted.passed_conditions,
                                          counted.total_conditions),
         confidence |-> counted.confidence,
         volatility_adjustment_factor |-> adapt_to_volatility(adv.volatility),
         triggers |-> triggers]

\* The strategy part of Config: a default, and the switches turned off.
StrategyConfig ==
    [enable_threshold_trigger |-> TRUE, enable_first_wave_sniper |-> TRUE,
     net_inflow_threshold_sol |-> 100, first_wave_inflow_multiplier |-> 50,
     first_wave_buy_ratio |-> 70, buy_ratio_threshold |-> 70,
     acceleration_required |-> TRUE, acceleration_multiplier |-> 120,
     max_slippage_percent |-> 5]

StrategyConfigs ==
    {[StrategyConfig EXCEPT !.enable_threshold_trigger = threshold,
                            !.enable_first_wave_sniper = first_wave,
                            !.acceleration_required = acceleration] :
        threshold \in BOOLEAN, first_wave \in BOOLEAN, acceleration \in BOOLEAN}

\* evaluate_metrics, the traditional strategy at its end.
legacy_strategy(m, cfg) ==
    IF m.buy_ratio < cfg.buy_ratio_threshold THEN "None"
    ELSE IF m.net_inflow_sol < cfg.net_inflow_threshold_sol THEN "None"
    ELSE IF cfg.acceleration_required
            /\ m.acceleration < cfg.acceleration_multiplier THEN "None"
    ELSE IF m.slippage > cfg.max_slippage_percent THEN "None"
    ELSE "Buy"

\* The first-wave test of evaluate_metrics.
first_wave_buys(m, cfg) ==
    /\ cfg.enable_first_wave_sniper
    /\ m.event_count <= 5
    /\ m.net_inflow_sol * 100
          >= cfg.net_inflow_threshold_sol * cfg.first_wave_inflow_multiplier
    /\ m.buy_ratio >= cfg.first_wave_buy_ratio

\* An evaluate_metrics that asks the scorer before the event-count gate.
evaluate_metrics_scorer_first(m, cfg, triggers) ==
    IF cfg.enable_threshold_trigger /\ m.threshold_buy_amount # None THEN "Buy"
    ELSE IF first_wave_buys(m, cfg) THEN "Buy"
    ELSE IF m.advanced.present
    THEN (IF evaluate_buy(m, m.advanced, triggers).should_buy THEN "Buy" ELSE "None")
    ELSE IF m.event_count < 3 THEN "None"
    ELSE legacy_strategy(m, cfg)

\* StrategyEngine::evaluate_metrics
evaluate_metrics(m, cfg, triggers) ==
    IF cfg.enable_threshold_trigger /\ m.threshold_buy_amount # None THEN "Buy"
    ELSE IF first_wave_buys(m, cfg) THEN "Buy"
    ELSE IF m.event_count < 3 THEN "None"
    ELSE IF m.advanced.present
    THEN (IF evaluate_buy(m, m.advanced, triggers).should_buy THEN "Buy" ELSE "None")
    ELSE legacy_strategy(m, cfg)

\* The sell triggers Strategy hands the scorer (Config's values), in
\* hundredths and seconds; a multiplier of 0 switches its rule off.
SellTriggers ==
    [take_profit_multiplier |-> 200, stop_loss_multiplier |-> 50,
     min_hold_duration_secs |-> 1, max_hold_duration_secs |-> 2,
     momentum_decay_threshold |-> 50]

SellTriggerSets ==
    {[SellTriggers EXCEPT !.take_profit_multiplier = take_profit,
                          !.stop_loss_multiplier = stop_loss] :
        take_profit \in {0, 200}, stop_loss \in {0, 50}}

\* An exit evaluator without the guards around its two price rules.
evaluate_exit_conditions_unguarded(m, entry_price_sol, hold_duration_secs, triggers, max_slippage_percent) ==
    IF hold_duration_secs < triggers.min_hold_duration_secs THEN "Hold"
    ELSE IF hold_duration_secs >= triggers.max_hold_duration_secs THEN "Sell"
    ELSE IF m.latest_virtual_sol_reserves * 100
              >= entry_price_sol * triggers.take_profit_multiplier
                   * m.latest_virtual_token_reserves
    THEN (IF m.slippage > max_slippage_percent THEN "Hold" ELSE "Sell")
    ELSE IF m.latest_virtual_sol_reserves * 100
              <= entry_price_sol * triggers.stop_loss_multiplier
                   * m.latest_virtual_token_reserves
    THEN (IF m.slippage > max_slippage_percent * 2 THEN "Hold" ELSE "Sell")
    ELSE IF m.buy_ratio < triggers.momentum_decay_threshold THEN "Sell"
    ELSE "Hold"

\* StrategyEngine::evaluate_exit_conditions.  current_price_sol is
\* latest_virtual_sol_reserves / latest_virtual_token_reserves; m.slippage is
\* what estimate_buy_slippage returns for the curve of m.
evaluate_exit_conditions(m, entry_price_sol, hold_duration_secs, triggers, max_slippage_percent) ==
    LET priced == /\ m.latest_virtual_sol_reserves > 0
                  /\ m.latest_virtual_token_reserves > 0
        take_profit == /\ priced
                       /\ triggers.take_profit_multiplier > 0
                       /\ m.latest_virtual_sol_reserves * 100
                            >= entry_price_sol * triggers.take_profit_multiplier
                                 * m.latest_virtual_token_reserves
        stop_loss   == /\ priced
                       /\ triggers.stop_loss_multiplier > 0
                       /\ m.latest_virtual_sol_reserves * 100
                            <= entry_price_sol * triggers.stop_loss_multiplier
                                 * m.latest_virtual_token_reserves
    IN
    IF hold_duration_secs < triggers.min_hold_duration_secs THEN "Hold"
    ELSE IF hold_duration_secs >= triggers.max_hold_duration_secs THEN "Sell"
    ELSE IF take_profit
    THEN (IF m.slippage > max_slippage_percent THEN "Hold" ELSE "Sell")
    ELSE IF stop_loss
    THEN (IF m.slippage > max_slippage_percent * 2 THEN "Hold" ELSE "Sell")
    ELSE IF m.buy_ratio < triggers.momentum_decay_threshold THEN "Sell"
    ELSE "Hold"

(***************************************************************************)
(* The momentum-decay detector (src/src/momentum_decay.rs).                *)
(***************************************************************************)
\* MomentumDecayConfig as PositionManager::new builds it: the thresholds of
\* Config, acceleration_threshold 1.0, strict_mode false.
MomentumConfig ==
    [buy_ratio_threshold |-> 50, net_inflow_threshold |-> 0,
     trade_frequency_threshold |-> 2, acceleration_threshold |-> 100,
     composite_score_threshold |-> 30, strict_mode |-> FALSE]

\* The configurations a MomentumDecayDetector can be built with.
MomentumConfigs ==
    {[MomentumConfig EXCEPT !.strict_mode = strict,
                            !.composite_score_threshold = composite] :
        strict \in BOOLEAN, composite \in {30, 60}}

\* check_composite_score's score, times 1000.
decay_composite_score(m) ==
    3 * m.buy_ratio + 3 * Min(Max(m.net_inflow_sol, 0), 100)
      + Min(Max(m.acceleration, 0), 200) + 20 * Min(m.event_count, 10)

\* The five checks of detect, in the order it runs them.
decay_checks(m, cfg) ==
    <<m.buy_ratio < cfg.buy_ratio_threshold,
      m.net_inflow_sol < cfg.net_inflow_threshold,
      (m.event_count \div 2) < cfg.trade_frequency_threshold,
      m.acceleration < cfg.acceleration_threshold,
      decay_composite_score(m) < 10 * cfg.composite_score_threshold>>

\* decay_reasons.len()
decay_reasons(m, cfg) ==
    Cardinality({i \in DOMAIN decay_checks(m, cfg) : decay_checks(m, cfg)[i]})

\* A detector that wants three reasons in either mode.
detect_always_strict(m, cfg) == decay_reasons(m, cfg) >= 3

\* MomentumDecayDetector::detect: TRUE when it returns Some(reason).
detect(m, cfg) ==
    IF cfg.strict_mode
    THEN decay_reasons(m, cfg) >= 3
    ELSE decay_reasons(m, cfg) >= 1

(***************************************************************************)
(* Strategy -> signal channel -> Position Manager.  One step of the        *)
(* Position Manager here is its whole loop body for one pair; what a buy   *)
(* or a sell does to the chain is in the Position Manager's own steps      *)
(* above, here either call changes the positions map or leaves it.         *)
(***************************************************************************)
SignalCapacity == 1   \* main.rs: mpsc::channel(100) of pairs, scaled
MaxHold        == 3   \* the hold clock of a position stops at MaxHold

\* The records metrics_rx.recv() hands to Strategy: windows that have not
\* reached the cumulative-buy threshold, without AdvancedMetrics.
StrategyRecords ==
    [mint : Tokens, threshold_buy_amount : {None},
     event_count : {2, 6}, buy_ratio : {0, 75},
     net_inflow_sol : {150}, acceleration : {150}, slippage : {0},
     latest_virtual_sol_reserves : {1},
     latest_virtual_token_reserves : {1},
     advanced : {NoAdvanced}]

held_long_enough(ps, mint, hold) ==
    contains_key(ps, mint) /\ hold[mint] >= SellTriggers.max_hold_duration_secs

\* A Strategy loop that forwards every signal, None included.
signal_to_send_always(m, signal) == [signal |-> signal, metrics |-> m]

\* StrategyEngine::start: `if signal != StrategySignal::None { send }`
signal_to_send(m, signal) ==
    IF signal # "None" THEN [signal |-> signal, metrics |-> m] ELSE NoPending

\* StrategyEngine::start, one iteration up to signal_tx.send(..).await
strategy_evaluate ==
    /\ stratPending = NoPending
    /\ lastEval = NoEval
    /\ \E m \in StrategyRecords :
       LET signal == evaluate_metrics(m, StrategyConfig, BalancedTriggers) IN
       /\ stratPending' = signal_to_send(m, signal)
       /\ lastStrat' = [op |-> "consume", mint |-> m.mint, signal |-> signal,
                        holdMaxed |-> held_long_enough(positions, m.mint, holdSecs)]
    /\ UNCHANGED <<signal_chan, holdSecs, lastPair, lastEval>>
    /\ UNCHANGED <<pmVars, aggVars, winVars, flowVars, raceVars, buyVars, mainVars, filterVars, sweepVars>>

\* signal_tx.send(..).await completes when the channel has room
strategy_send ==
    /\ stratPending # NoPending
    /\ Len(signal_chan) < SignalCapacity
    /\ signal_chan' = Append(signal_chan, stratPending)
    /\ stratPending' = NoPending
    /\ lastStrat' = [op |-> "send", mint |-> stratPending.metrics.mint,
                     signal |-> stratPending.signal, holdMaxed |-> FALSE]
    /\ UNCHANGED <<holdSecs, lastPair, lastEval>>
    /\ UNCHANGED <<pmVars, aggVars, winVars, flowVars, raceVars, buyVars, mainVars, filterVars, sweepVars>>

\* The calls of one loop body of PositionManager::start, in their order.
pair_steps(fired, signal) ==
    <<"check_momentum_decay">>
      \o (IF fired THEN <<"handle_sell_signal">> ELSE <<>>)
      \o <<"monitor_positions", "dispatch " \o signal>>

\* PositionManager::start, the loop body for the pair at the head of the
\* channel: check_momentum_decay, monitor_positions, the match on the signal.
position_manager_pair ==
    /\ signal_chan # <<>>
    /\ LET pair   == Head(signal_chan)
           m      == pair.metrics
           held   == contains_key(positions, m.mint)
           fired  == held /\ detect(m, MomentumConfig)
       IN
       \E decay_sold \in IF fired THEN BOOLEAN ELSE {FALSE} :
       LET ps1 == IF decay_sold THEN remove(positions, m.mint) ELSE positions IN
       \E alert_sold \in SUBSET {q.mint : q \in ps1} :
       LET ps2 == {q \in ps1 : q.mint \notin alert_sold}
           evaluated == pair.signal = "Hold" /\ contains_key(ps2, m.mint)
           exit_signal == IF evaluated
                          THEN evaluate_exit_conditions(m, 1, holdSecs[m.mint],
                                   SellTriggers, StrategyConfig.max_slippage_percent)
                          ELSE "None"
           sells  == \/ pair.signal = "Sell"
                     \/ evaluated /\ exit_signal = "Sell"
           buys   == pair.signal = "Buy" /\ buy_allowed(ps2, m.mint)
       IN
       \E done \in IF (sells /\ contains_key(ps2, m.mint)) \/ buys
                   THEN BOOLEAN ELSE {FALSE} :
       /\ positions' = IF done /\ buys
                       THEN insert(ps2, [mint |-> m.mint, token_amount |-> 1])
                       ELSE IF done THEN remove(ps2, m.mint)
                       ELSE ps2
       /\ holdSecs' = [t \in Tokens |->
                          IF contains_key(positions', t) /\ contains_key(positions, t)
                          THEN holdSecs[t] ELSE 0]
       /\ lastPair' = [op |-> "pair", mint |-> m.mint, signal |-> pair.signal,
                       held |-> held, reasons |-> decay_reasons(m, MomentumConfig),
                       strict_mode |-> MomentumConfig.strict_mode,
                       decayFired |-> fired, steps |-> pair_steps(fired, pair.signal),
                       exitEvaluated |-> evaluated, sellInvoked |-> fired \/ sells]
    /\ signal_chan' = Tail(signal_chan)
    /\ UNCHANGED <<stratPending, lastStrat, lastEval>>
    /\ UNCHANGED <<chainBalance, pc, cur, todo, monitored, lastAlert, lastBuy, lastSell>>
    /\ UNCHANGED <<aggVars, winVars, flowVars, raceVars, buyVars, mainVars, filterVars, sweepVars>>

\* Utc::now() moves on: every position is held one second longer.
hold_tick ==
    /\ \E t \in Tokens : contains_key(positions, t) /\ holdSecs[t] < MaxHold
    /\ holdSecs' = [t \in Tokens |->
                       IF contains_key(positions, t)
                       THEN Min(holdSecs[t] + 1, MaxHold) ELSE holdSecs[t]]
    /\ UNCHANGED <<stratPending, signal_chan, lastStrat, lastPair, lastEval>>
    /\ UNCHANGED <<pmVars, aggVars, winVars, flowVars, raceVars, buyVars, mainVars, filterVars, sweepVars>>

StratIdle ==
    /\ stratPending = NoPending /\ signal_chan = <<>>
    /\ lastStrat = NoStrat /\ lastPair = NoStrat
    /\ positions = {}

\* The detector on its own, as built from any configuration: one call of
\* detect on a record, before the loops have started.
detector_detect ==
    /\ StratIdle
    /\ \E m \in StrategyRecords, cfg \in MomentumConfigs :
       lastEval' = [op |-> "detect", reasons |-> decay_reasons(m, cfg),
                    strict_mode |-> cfg.strict_mode, fired |-> detect(m, cfg)]
    /\ UNCHANGED <<stratPending, signal_chan, holdSecs, lastStrat, lastPair>>
    /\ UNCHANGED <<pmVars, aggVars, winVars, flowVars, raceVars, buyVars, mainVars, filterVars, sweepVars>>

StratNext ==
    \/ strategy_evaluate
    \/ strategy_send
    \/ position_manager_pair
    \/ hold_tick
    \/ detector_detect

SpecStrategy == Init /\ [][StratNext]_vars

\* The loops of Strategy and of the Position Manager are tasks the runtime
\* keeps scheduling: a send that can complete does, a buffered pair is taken.
SpecStrategyFair ==
    SpecStrategy /\ WF_vars(strategy_send) /\ WF_vars(position_manager_pair)

(***************************************************************************)
(* main: the five spawned tasks, and the reconnect loop of the event       *)
(* source (src/src/grpc/client.rs).                                        *)
(***************************************************************************)
MaxFailures == 12     \* retry_count stops counting at MaxFailures

RECURSIVE shl(_, _)
\* a << n
shl(a, n) == IF n = 0 THEN a ELSE 2 * shl(a, n - 1)

\* A backoff that starts at 5 ms for the first failure.
reconnect_delay_from_base(count) == Min(5 * shl(1, Min(count - 1, 10)), 5000)

\* std::cmp::min(5 * (1 << retry_count.min(10)), 5000)
reconnect_delay(count) == Min(5 * shl(1, Min(count, 10)), 5000)

\* subscribe_with_reconnect, one turn of its loop up to the sleep:
\* subscribe_pumpfun_events has returned.  It returns Err on a connect
\* failure, on a stream error and on the end of the stream, and never Ok,
\* so the turn always takes the Err arm.
stream_ends ==
    /\ tasks["grpc"] = "running"
    /\ retry_count < MaxFailures
    /\ retry_count' = retry_count + 1
    /\ failures' = failures + 1
    /\ delay_ms' = reconnect_delay(retry_count')
    /\ tasks' = [tasks EXCEPT !["grpc"] = "backoff"]
    /\ UNCHANGED <<pmVars, aggVars, winVars, flowVars, raceVars, buyVars, stratVars, filterVars, sweepVars>>

\* tokio::time::sleep(delay_ms) is over: the loop calls
\* subscribe_pumpfun_events again.
reconnect ==
    /\ tasks["grpc"] = "backoff"
    /\ tasks' = [tasks EXCEPT !["grpc"] = "running"]
    /\ delay_ms' = 0
    /\ UNCHANGED <<retry_count, failures>>
    /\ UNCHANGED <<pmVars, aggVars, winVars, flowVars, raceVars, buyVars, stratVars, filterVars, sweepVars>>

\* The future of a spawned task ends: start(..) returned and the block logged
\* the exit, or the task panicked.  subscribe_with_reconnect and the
\* sweeper's loop do not return, so those two tasks end by a panic only, and
\* the lines of main that follow subscribe_with_reconnect(..).await (the
\* 5-second sleep and the next turn of the loop) are never reached.
task_ends ==
    /\ \E t \in TaskNames :
       /\ tasks[t] # "exited"
       /\ tasks' = [tasks EXCEPT ![t] = "exited"]
    /\ UNCHANGED <<retry_count, failures, delay_ms>>
    /\ UNCHANGED <<pmVars, aggVars, winVars, flowVars, raceVars, buyVars, stratVars, filterVars, sweepVars>>

MainNext ==
    \/ stream_ends
    \/ reconnect
    \/ task_ends

SpecMain == Init /\ [][MainNext]_vars

\* A sleep that was started ends.
SpecMainFair == SpecMain /\ WF_vars(reconnect)

(***************************************************************************)
(* The pure functions of the Aggregator and of Strategy, each called on    *)
(* inputs of its own.                                                      *)
(***************************************************************************)
MaxWindowLen == 5     \* events in a window handed to calculate_acceleration
MaxReserve   == 2     \* the virtual reserves of a record range over 0..MaxReserve

SlippageGrid == {k * 6 : k \in 0..MaxGrid}

RECURSIVE SeqsUpTo(_, _)
\* the sequences over S of length at most n
SeqsUpTo(S, n) ==
    IF n = 0 THEN {<<>>}
    ELSE LET shorter == SeqsUpTo(S, n - 1) IN
         shorter \cup {Append(q, x) : q \in shorter, x \in S}

\* WindowEvent, the fields calculate_acceleration reads.
WindowEvents == [is_buy : BOOLEAN, sol_amount : 1..MaxSol]

\* WindowMetrics of a held token; the reserves are both 0 when the window
\* has seen none.
ExitRecords ==
    {m \in [buy_ratio : RatioGrid, slippage : SlippageGrid,
            latest_virtual_sol_reserves : 0..MaxReserve,
            latest_virtual_token_reserves : 0..MaxReserve] :
        (m.latest_virtual_sol_reserves = 0) <=> (m.latest_virtual_token_reserves = 0)}

\* AdvancedMetrics of a calm, shallow-impact market.
AdvancedSamples ==
    {NoAdvanced} \cup {a \in AdvancedMetricsSet :
                          a.avg_price_impact = 0 /\ a.volatility = 0}

\* WindowMetrics as evaluate_metrics reads it.
MetricsRecords ==
    [threshold_buy_amount : {None, 1}, event_count : {2, 4, 6},
     buy_ratio : RatioGrid, net_inflow_sol : Grid, acceleration : Grid,
     slippage : SlippageGrid, advanced : AdvancedSamples]

\* WindowMetrics as evaluate_buy reads it.
ScoredRecords ==
    [buy_ratio : RatioGrid, net_inflow_sol : Grid, acceleration : Grid]

apply_calculate_acceleration ==
    /\ lastEval = NoEval
    /\ \E events \in SeqsUpTo(WindowEvents, MaxWindowLen) :
       lastEval' = [op |-> "calculate_acceleration", events |-> events,
                    result |-> calculate_acceleration(events)]
    /\ UNCHANGED <<stratPending, signal_chan, holdSecs, lastStrat, lastPair>>
    /\ UNCHANGED <<pmVars, aggVars, winVars, flowVars, raceVars, buyVars, mainVars, filterVars, sweepVars>>

apply_evaluate_exit_conditions ==
    /\ lastEval = NoEval
    /\ \E m \in ExitRecords, hold \in 0..MaxHold, triggers \in SellTriggerSets :
       lastEval' = [op |-> "evaluate_exit_conditions", m |-> m,
                    entry_price_sol |-> 1, hold_duration_secs |-> hold,
                    triggers |-> triggers,
                    max_slippage_percent |-> StrategyConfig.max_slippage_percent,
                    result |-> evaluate_exit_conditions(m, 1, hold, triggers,
                                   StrategyConfig.max_slippage_percent)]
    /\ UNCHANGED <<stratPending, signal_chan, holdSecs, lastStrat, lastPair>>
    /\ UNCHANGED <<pmVars, aggVars, winVars, flowVars, raceVars, buyVars, mainVars, filterVars, sweepVars>>

\* check_threshold_trigger returns an amount only when
\* enable_threshold_trigger is set, in the Config Strategy reads too.
apply_evaluate_metrics ==
    /\ lastEval = NoEval
    /\ \E m \in MetricsRecords, cfg \in StrategyConfigs :
       /\ m.threshold_buy_amount # None => cfg.enable_threshold_trigger
       /\ lastEval' = [op |-> "evaluate_metrics", m |-> m, cfg |-> cfg,
                       result |-> evaluate_metrics(m, cfg, BalancedTriggers)]
    /\ UNCHANGED <<stratPending, signal_chan, holdSecs, lastStrat, lastPair>>
    /\ UNCHANGED <<pmVars, aggVars, winVars, flowVars, raceVars, buyVars, mainVars, filterVars, sweepVars>>

apply_evaluate_buy ==
    /\ lastEval = NoEval
    /\ \E m \in ScoredRecords, adv \in AdvancedMetricsSet, mode \in BuyTriggerSets :
       lastEval' = [op |-> "evaluate_buy", m |-> m, adv |-> adv, mode |-> mode,
                    conditions |-> buy_conditions(m, adv, mode),
                    result |-> evaluate_buy(m, adv, mode)]
    /\ UNCHANGED <<stratPending, signal_chan, holdSecs, lastStrat, lastPair>>
    /\ UNCHANGED <<pmVars, aggVars, winVars, flowVars, raceVars, buyVars, mainVars, filterVars, sweepVars>>

\* The call has returned.
eval_return ==
    /\ lastEval # NoEval
    /\ lastEval' = NoEval
    /\ UNCHANGED <<stratPending, signal_chan, holdSecs, lastStrat, lastPair>>
    /\ UNCHANGED <<pmVars, aggVars, winVars, flowVars, raceVars, buyVars, mainVars, filterVars, sweepVars>>

EvalNext ==
    \/ apply_calculate_acceleration
    \/ apply_evaluate_exit_conditions
    \/ apply_evaluate_metrics
    \/ apply_evaluate_buy
    \/ eval_return

SpecEval == Init /\ [][EvalNext]_vars

(***************************************************************************)
(* MintWindow::check_threshold_trigger with the wall clock in              *)
(* milliseconds: handle_trade_event adds the accepted trade to the window  *)
(* and then asks the window whether the threshold buy fires.  SOL amounts  *)
(* are whole SOL, buy amounts 1/100 SOL, the ratio is in percent.          *)
(***************************************************************************)
MaxTriggerSteps == 5  \* the window's age goes up to MaxTriggerSteps half seconds

\* The threshold part of a validated Config (config.rs:249-268).
TriggerConfigs ==
    {cfg \in [enable_threshold_trigger          : BOOLEAN,
              threshold_observation_window_secs : {1, 2},
              threshold_cumulative_buy_sol      : {2},
              threshold_buy_ratio               : {50, 100},
              threshold_min_buy_amount_sol      : {50, 150},
              threshold_max_buy_amount_sol      : {150, 250}] :
        cfg.threshold_max_buy_amount_sol >= cfg.threshold_min_buy_amount_sol}

\* chrono's Duration::num_seconds of a non-negative duration in milliseconds.
num_seconds(millis) == millis \div 1000

\* elapsed_secs > config.threshold_observation_window_secs
elapsed_exceeds(millis, window_secs) == num_seconds(millis) > window_secs

\* MintWindow::check_threshold_trigger at wall-clock time time_ms, on a
\* window whose created_at is in milliseconds.
check_threshold_trigger_at(cfg, window, time_ms) ==
    IF /\ cfg.enable_threshold_trigger
       /\ ~window.threshold_triggered
       /\ ~elapsed_exceeds(time_ms - window.created_at,
                           cfg.threshold_observation_window_secs)
       /\ window.cumulative_buys_sol >= cfg.threshold_cumulative_buy_sol
    THEN [buy_amount |->
             Min(Max(cfg.threshold_cumulative_buy_sol * cfg.threshold_buy_ratio,
                     cfg.threshold_min_buy_amount_sol),
                 cfg.threshold_max_buy_amount_sol),
          window |-> [window EXCEPT !.threshold_triggered = TRUE]]
    ELSE [buy_amount |-> None, window |-> window]

\* handle_trade_event on the first trade of a token: windows.entry(mint)
\* .or_insert_with(MintWindow::new), under one of the configurations.
trigger_window_new ==
    /\ lastEval = NoEval
    /\ \E cfg \in TriggerConfigs :
       lastEval' = [op |-> "window_new", cfg |-> cfg, time_ms |-> 0,
                    window |-> MintWindow_new(0)]
    /\ UNCHANGED <<stratPending, signal_chan, holdSecs, lastStrat, lastPair>>
    /\ UNCHANGED <<pmVars, aggVars, winVars, flowVars, raceVars, buyVars, mainVars, filterVars, sweepVars>>

\* handle_trade_event, steps 4 and 5, on an accepted trade that arrives
\* wait half seconds after the last one: window.add_event, then
\* window.check_threshold_trigger.
apply_check_threshold_trigger ==
    /\ lastEval.op \in {"window_new", "check_threshold_trigger"}
    /\ \E is_buy \in BOOLEAN, sol_amount \in 1..2, wait \in 0..MaxTriggerSteps :
       LET cfg     == lastEval.cfg
           time_ms == lastEval.time_ms + wait * 500
           event   == [is_buy |-> is_buy, sol_amount |-> sol_amount, timestamp |-> 0]
           added   == add_event(lastEval.window, event, config.window_max_events,
                                config.window_duration_secs, num_seconds(time_ms))
           checked == check_threshold_trigger_at(cfg, added, time_ms)
       IN  /\ time_ms <= MaxTriggerSteps * 500
           /\ added.cumulative_buys_sol <= MaxCumulative
           /\ lastEval' = [op |-> "check_threshold_trigger", cfg |-> cfg,
                           before |-> lastEval.window, event |-> event,
                           time_ms |-> time_ms,
                           cumulative_buys_sol |-> added.cumulative_buys_sol,
                           threshold_buy_amount |-> checked.buy_amount,
                           window |-> checked.window]
    /\ UNCHANGED <<stratPending, signal_chan, holdSecs, lastStrat, lastPair>>
    /\ UNCHANGED <<pmVars, aggVars, winVars, flowVars, raceVars, buyVars, mainVars, filterVars, sweepVars>>

TriggerNext ==
    \/ trigger_window_new
    \/ apply_check_threshold_trigger
    \/ eval_return

SpecTrigger == Init /\ [][TriggerNext]_vars

(***************************************************************************)
(* The aggregator task and the sweeper task side by side.  Both are        *)
(* spawned on the multi-threaded runtime and share the two DashMaps; each  *)
(* DashMap call is one step, and retain visits one entry per step.         *)
(***************************************************************************)
\* windows.retain: should_keep = window.created_at > cutoff_time
window_should_keep(window, cutoff_time) == window.created_at > cutoff_time

\* event_history.retain: should_keep = self.windows.contains_key(mint)
history_should_keep(ws, mint) == ws[mint].exists

\* handle_trade_event, step 3, for a trade the filter accepted:
\* event_history.entry(mint).or_insert_with(..), push_back, cap.
trade_history ==
    /\ aggPc = AggIdle
    /\ \E mint \in AggTokens, is_buy \in BOOLEAN :
       LET history == history_push(event_history[mint])
       IN  /\ history.len <= MaxHistory
           /\ event_history' = [event_history EXCEPT ![mint] = history]
           /\ aggPc' = [at |-> "trade", mint |-> mint,
                        event |-> [is_buy |-> is_buy, sol_amount |-> 1,
                                   timestamp |-> now]]
    /\ lastMetrics' = NoMetrics
    /\ UNCHANGED <<windows, now, thresholdEmits, sweepPc, notSweep>>

\* handle_trade_event, steps 4 to 8: windows.entry(mint).or_insert_with(..),
\* add_event, check_threshold_trigger, the record, event_history.get.
trade_window ==
    /\ aggPc.at = "trade"
    /\ LET mint   == aggPc.mint
           window == IF windows[mint].exists THEN windows[mint]
                     ELSE MintWindow_new(now)
           added  == add_event(window, aggPc.event, config.window_max_events,
                               config.window_duration_secs, now)
           check  == check_threshold_trigger(added, now)
       IN  /\ added.cumulative_buys_sol <= MaxCumulative
           /\ windows' = [windows EXCEPT ![mint] = check.window]
           /\ lastMetrics' =
                 calculate_metrics(mint, check.window) @@
                 [threshold_buy_amount |-> check.buy_amount,
                  advanced_metrics |->
                      /\ event_history[mint].exists
                      /\ event_history[mint].len >= AdvancedMinEvents]
           /\ thresholdEmits' =
                 IF check.buy_amount # None
                 THEN [thresholdEmits EXCEPT ![mint] = Min(@ + 1, MaxEmits)]
                 ELSE thresholdEmits
    /\ aggPc' = AggIdle
    /\ UNCHANGED <<event_history, now, sweepPc, notSweep>>

\* SniperEvent::CreateToken: windows.insert(mint, MintWindow::new)
create_window ==
    /\ aggPc = AggIdle
    /\ \E mint \in AggTokens :
          /\ windows' = [windows EXCEPT ![mint] = MintWindow_new(now)]
          /\ aggPc' = [at |-> "create", mint |-> mint]
    /\ lastMetrics' = NoMetrics
    /\ UNCHANGED <<event_history, now, thresholdEmits, sweepPc, notSweep>>

\* SniperEvent::CreateToken: event_history.insert(mint, [create_event])
create_history ==
    /\ aggPc.at = "create"
    /\ event_history' = [event_history EXCEPT ![aggPc.mint] =
                            [exists |-> TRUE, len |-> 1]]
    /\ aggPc' = AggIdle
    /\ lastMetrics' = NoMetrics
    /\ UNCHANGED <<windows, now, thresholdEmits, sweepPc, notSweep>>

\* SniperEvent::Migrate: windows.remove(mint)
migrate_window ==
    /\ aggPc = AggIdle
    /\ \E mint \in AggTokens :
          /\ windows' = [windows EXCEPT ![mint] = NoWindow]
          /\ aggPc' = [at |-> "migrate", mint |-> mint]
    /\ lastMetrics' = NoMetrics
    /\ UNCHANGED <<event_history, now, thresholdEmits, sweepPc, notSweep>>

\* SniperEvent::Migrate: event_history.remove(mint)
migrate_history ==
    /\ aggPc.at = "migrate"
    /\ event_history' = [event_history EXCEPT ![aggPc.mint] = NoHistory]
    /\ aggPc' = AggIdle
    /\ lastMetrics' = NoMetrics
    /\ UNCHANGED <<windows, now, thresholdEmits, sweepPc, notSweep>>

\* cleanup_old_windows: cutoff_time = self.now() - max_age_secs
sweep_start ==
    /\ sweepPc = SweepIdle
    /\ sweepPc' = [at |-> "windows", todo |-> AggTokens,
                   cutoff_time |-> now - config.aggregator_window_ttl_secs,
                   removed_windows |-> {}, removed_histories |-> {}]
    /\ lastMetrics' = NoMetrics
    /\ UNCHANGED <<windows, event_history, now, thresholdEmits, aggPc, notSweep>>

\* cleanup_old_windows: self.windows.retain(..), one entry
sweep_windows_retain ==
    /\ sweepPc.at = "windows"
    /\ \E mint \in sweepPc.todo :
       LET dropped == /\ windows[mint].exists
                     /\ ~window_should_keep(windows[mint], sweepPc.cutoff_time)
           rest   == sweepPc.todo \ {mint}
       IN  /\ windows' = IF dropped THEN [windows EXCEPT ![mint] = NoWindow]
                         ELSE windows
           /\ sweepPc' = [sweepPc EXCEPT
                 !.at = IF rest = {} THEN "history" ELSE "windows",
                 !.todo = IF rest = {} THEN AggTokens ELSE rest,
                 !.removed_windows = IF dropped THEN @ \cup {mint} ELSE @]
    /\ lastMetrics' = NoMetrics
    /\ UNCHANGED <<event_history, now, thresholdEmits, aggPc, notSweep>>

\* cleanup_old_windows: self.event_history.retain(..), one entry
sweep_history_retain ==
    /\ sweepPc.at = "history"
    /\ \E mint \in sweepPc.todo :
       LET dropped == /\ event_history[mint].exists
                     /\ ~history_should_keep(windows, mint)
           rest   == sweepPc.todo \ {mint}
       IN  /\ event_history' = IF dropped
                               THEN [event_history EXCEPT ![mint] = NoHistory]
                               ELSE event_history
           /\ sweepPc' = [sweepPc EXCEPT
                 !.at = IF rest = {} THEN "return" ELSE "history",
                 !.todo = rest,
                 !.removed_histories = IF dropped THEN @ \cup {mint} ELSE @]
    /\ lastMetrics' = NoMetrics
    /\ UNCHANGED <<windows, now, thresholdEmits, aggPc, notSweep>>

\* cleanup_old_windows: the log line and the return
sweep_return ==
    /\ sweepPc.at = "return"
    /\ sweepPc' = SweepIdle
    /\ lastMetrics' = NoMetrics
    /\ UNCHANGED <<windows, event_history, now, thresholdEmits, aggPc, notSweep>>

\* The cached_time updater task.
sweep_time_updater ==
    /\ now < MaxTime
    /\ now' = now + 1
    /\ lastMetrics' = NoMetrics
    /\ UNCHANGED <<windows, event_history, thresholdEmits, aggPc, sweepPc, notSweep>>

SweepNext ==
    \/ trade_history
    \/ trade_window
    \/ create_window
    \/ create_history
    \/ migrate_window
    \/ migrate_history
    \/ sweep_start
    \/ sweep_windows_retain
    \/ sweep_history_retain
    \/ sweep_return
    \/ sweep_time_updater

SpecSweep == Init /\ [][SweepNext]_vars

(***************************************************************************)
(* MultiSwqosManager: the clients built from the configured services and   *)
(* the tip transfers of a transaction.                                     *)
(***************************************************************************)
MaxPriority    == 2  \* a service's priority is 1..MaxPriority
MaxTipLamports == 2  \* a service's tip_lamports is 1..MaxTipLamports

\* The services SwqosConfig::from_env knows, in the order it pushes them.
ServiceTypes == <<"Jito", "NextBlock", "ZeroSlot">>

\* The subsequence of seq at the indices in keep.
RECURSIVE select_indices(_, _, _)
select_indices(seq, keep, i) ==
    IF i > Len(seq) THEN <<>>
    ELSE (IF i \in keep THEN <<seq[i]>> ELSE <<>>) \o select_indices(seq, keep, i + 1)

\* SwqosConfig::from_env: the services whose *_ENABLED is true, in the order
\* of ServiceTypes, each enabled, with its *_PRIORITY and *_TIP_LAMPORTS.
SwqosConfigs ==
    {[max_tips |-> max_tips,
      services |-> select_indices(
          [i \in 1..Len(ServiceTypes) |->
              [name |-> ServiceTypes[i], service_type |-> ServiceTypes[i],
               priority |-> priority[i], tip_lamports |-> tip[i], enabled |-> TRUE]],
          loaded, 1)] :
        max_tips \in 1..2,
        loaded \in SUBSET (1..Len(ServiceTypes)),
        priority \in [1..Len(ServiceTypes) -> 1..MaxPriority],
        tip \in [1..Len(ServiceTypes) -> 1..MaxTipLamports]}

\* Vec::sort_by_key(|s| s.priority): a stable sort.
RECURSIVE sort_by_priority(_)
sort_by_priority(services) ==
    IF services = <<>> THEN <<>>
    ELSE LET lowest == CHOOSE i \in 1..Len(services) :
                          \A j \in 1..Len(services) :
                              \/ services[i].priority < services[j].priority
                              \/ services[i].priority = services[j].priority /\ i <= j
         IN  <<services[lowest]>> \o
             sort_by_priority(select_indices(services, (1..Len(services)) \ {lowest}, 1))

\* MultiSwqosManager::new: one client per enabled service, by priority.
\* A client is known by its SwqosType, which decides its tip account.
swqos_manager_new(cfg) ==
    LET sorted_services == sort_by_priority(cfg.services)
        enabled == {i \in 1..Len(sorted_services) : sorted_services[i].enabled}
    IN  [i \in 1..Cardinality(enabled) |->
            select_indices(sorted_services, enabled, 1)[i].service_type]

\* MultiSwqosManager::get_all_tip_instructions: one transfer per pair of
\* self.clients.iter().zip(&self.config.services), truncated to max_tips.
all_tip_instructions(clients, cfg) ==
    LET zipped == [i \in 1..Min(Len(clients), Len(cfg.services)) |->
                      [name |-> cfg.services[i].name,
                       tip_account_of |-> clients[i],
                       lamports |-> cfg.services[i].tip_lamports]]
    IN  IF Len(zipped) > cfg.max_tips THEN SubSeq(zipped, 1, cfg.max_tips)
        ELSE zipped

apply_swqos_manager_new ==
    /\ lastEval = NoEval
    /\ \E cfg \in SwqosConfigs :
       lastEval' = [op |-> "manager_new", config |-> cfg,
                    clients |-> swqos_manager_new(cfg)]
    /\ UNCHANGED <<stratPending, signal_chan, holdSecs, lastStrat, lastPair>>
    /\ UNCHANGED <<pmVars, aggVars, winVars, flowVars, raceVars, buyVars, mainVars, filterVars, sweepVars>>

apply_get_all_tip_instructions ==
    /\ lastEval.op = "manager_new"
    /\ lastEval' = [op |-> "get_all_tip_instructions", config |-> lastEval.config,
                    clients |-> lastEval.clients,
                    tip_instructions |->
                        all_tip_instructions(lastEval.clients, lastEval.config)]
    /\ UNCHANGED <<stratPending, signal_chan, holdSecs, lastStrat, lastPair>>
    /\ UNCHANGED <<pmVars, aggVars, winVars, flowVars, raceVars, buyVars, mainVars, filterVars, sweepVars>>

TipsNext ==
    \/ apply_swqos_manager_new
    \/ apply_get_all_tip_instructions
    \/ eval_return

SpecTips == Init /\ [][TipsNext]_vars

(***************************************************************************)
(* The event filter (src/src/advanced_filter.rs).  Times are in            *)
(* milliseconds; the clock moves in steps of half a second.                *)
(***************************************************************************)
MaxFilterEvents == 3  \* events handed to the filter
MaxFilterSteps  == 2  \* the clock stops after MaxFilterSteps half seconds

\* AdvancedFilterConfig as Aggregator::new builds it from Config: the two
\* amount limits and max_frequency always Some, no time window, no
\* min_frequency.  Amounts are in SOL, max_frequency in trades per second.
FilterConfigs ==
    [built : {TRUE}, min_sol_amount : {2}, max_sol_amount : {2},
     require_dev_trade : BOOLEAN, enable_blacklist : {TRUE},
     enable_whitelist : BOOLEAN, max_frequency : {5, 2000},
     enable_duplicate_detection : BOOLEAN, duplicate_window_secs : {1}]

\* PumpFunEvent as handle_trade_event builds it: is_dev_trade is
\* trade.user == trade.creator.
FilterEvents ==
    {e \in [mint : Tokens, user : {"creator", "trader"}, sol_amount : 2..3,
            token_amount : {1}, is_dev_trade : BOOLEAN] :
        e.is_dev_trade <=> e.user = "creator"}

\* calculate_event_hash: the hasher is fed mint, user, sol_amount,
\* token_amount.
calculate_event_hash(event) ==
    <<event.mint, event.user, event.sol_amount, event.token_amount>>

check_amount_range(cfg, event) ==
    IF event.sol_amount < cfg.min_sol_amount THEN "AmountTooSmall"
    ELSE IF event.sol_amount > cfg.max_sol_amount THEN "AmountTooLarge"
    ELSE "ok"

\* check_dev_trade_requirement: its verdict and the dev_trades it leaves.
check_dev_trade_requirement(cfg, devs, event) ==
    IF ~cfg.require_dev_trade THEN [verdict |-> "ok", dev_trades |-> devs]
    ELSE IF event.is_dev_trade
    THEN [verdict |-> "ok", dev_trades |-> devs \cup {event.mint}]
    ELSE IF event.mint \in devs THEN [verdict |-> "ok", dev_trades |-> devs]
    ELSE [verdict |-> "MissingDevTrade", dev_trades |-> devs]

\* Nothing in the program calls add_to_blacklist or add_to_whitelist: both
\* sets stay empty.
check_blacklist(cfg, event) ==
    IF cfg.enable_blacklist /\ event.user \in {} THEN "BlacklistedAddress" ELSE "ok"

check_whitelist(cfg, event) ==
    IF cfg.enable_whitelist /\ event.user \notin {} THEN "NotWhitelisted" ELSE "ok"

\* A frequency check that lets the trade that creates the entry through.
check_frequency_first_passes(cfg, tracker, event, time) ==
    LET entry == tracker[event.mint] IN
    IF ~entry.present \/ time - entry.last_reset >= 1000
    THEN [verdict |-> "ok",
          tracker |-> [tracker EXCEPT ![event.mint] =
                          [present |-> TRUE, count |-> 1, last_reset |-> time]]]
    ELSE LET count == entry.count + 1 IN
         [verdict |-> IF count * 1000 > cfg.max_frequency * Max(time - entry.last_reset, 1)
                      THEN "AbnormalFrequency" ELSE "ok",
          tracker |-> [tracker EXCEPT ![event.mint].count = count]]

\* check_frequency: its verdict and the frequency_tracker it leaves.
\* frequency = count / elapsed.max(0.001) seconds, compared with max.
check_frequency(cfg, tracker, event, time) ==
    LET entry == IF tracker[event.mint].present
                 THEN tracker[event.mint]
                 ELSE [present |-> TRUE, count |-> 0, last_reset |-> time]
        elapsed == time - entry.last_reset
    IN  IF elapsed >= 1000
        THEN [verdict |-> "ok",
              tracker |-> [tracker EXCEPT ![event.mint] =
                              [present |-> TRUE, count |-> 1, last_reset |-> time]]]
        ELSE LET count == entry.count + 1 IN
             [verdict |-> IF count * 1000 > cfg.max_frequency * Max(elapsed, 1)
                          THEN "AbnormalFrequency" ELSE "ok",
              tracker |-> [tracker EXCEPT ![event.mint] =
                              [present |-> TRUE, count |-> count,
                               last_reset |-> entry.last_reset]]]

\* seen.retain: (now - timestamp).num_seconds() < duplicate_window_secs
retain_seen(cfg, seen, time) ==
    {r \in seen : (time - r.time) \div 1000 < cfg.duplicate_window_secs}

\* A duplicate check that records the time of a rejected duplicate too.
check_duplicate_refreshing(cfg, seen, event, time) ==
    IF ~cfg.enable_duplicate_detection THEN [verdict |-> "ok", seen_events |-> seen]
    ELSE LET kept == retain_seen(cfg, seen, time)
             hash == calculate_event_hash(event)
             rest == {r \in kept : r.hash # hash} \cup {[hash |-> hash, time |-> time]}
         IN  IF \E r \in kept : r.hash = hash
             THEN [verdict |-> "DuplicateEvent", seen_events |-> rest]
             ELSE [verdict |-> "ok", seen_events |-> rest]

\* check_duplicate: its verdict and the seen_events it leaves.
check_duplicate(cfg, seen, event, time) ==
    IF ~cfg.enable_duplicate_detection THEN [verdict |-> "ok", seen_events |-> seen]
    ELSE LET kept == retain_seen(cfg, seen, time)
             hash == calculate_event_hash(event)
         IN  IF \E r \in kept : r.hash = hash
             THEN [verdict |-> "DuplicateEvent", seen_events |-> kept]
             ELSE [verdict |-> "ok",
                   seen_events |-> kept \cup {[hash |-> hash, time |-> time]}]

\* The order in which filter calls its stages.
stage_order == <<"amount", "dev", "blacklist", "whitelist", "time", "frequency", "duplicate">>

\* The state of the filter's maps and sets while filter runs its stages.
FilterState(devs, tracker, seen, verdict, stage) ==
    [dev_trades |-> devs, frequency_tracker |-> tracker, seen_events |-> seen,
     verdict |-> verdict, stage |-> stage]

\* One stage of filter on the state st.
run_stage(stage, cfg, st, event, time) ==
    IF stage = "amount"
    THEN [st EXCEPT !.verdict = check_amount_range(cfg, event), !.stage = stage]
    ELSE IF stage = "dev"
    THEN LET r == check_dev_trade_requirement(cfg, st.dev_trades, event) IN
         [st EXCEPT !.verdict = r.verdict, !.dev_trades = r.dev_trades, !.stage = stage]
    ELSE IF stage = "blacklist"
    THEN [st EXCEPT !.verdict = check_blacklist(cfg, event), !.stage = stage]
    ELSE IF stage = "whitelist"
    THEN [st EXCEPT !.verdict = check_whitelist(cfg, event), !.stage = stage]
    ELSE IF stage = "time"
    THEN \* check_time_window: both hours are None
         [st EXCEPT !.verdict = "ok", !.stage = stage]
    ELSE IF stage = "frequency"
    THEN LET r == check_frequency(cfg, st.frequency_tracker, event, time) IN
         [st EXCEPT !.verdict = r.verdict, !.frequency_tracker = r.tracker,
                    !.stage = stage]
    ELSE LET r == check_duplicate(cfg, st.seen_events, event, time) IN
         [st EXCEPT !.verdict = r.verdict, !.seen_events = r.seen_events,
                    !.stage = stage]

RECURSIVE run_every_stage(_, _, _, _, _)
\* A filter that goes through all its stages and reports the first Err.
run_every_stage(i, cfg, st, event, time) ==
    IF i > Len(stage_order) THEN st
    ELSE LET next == run_stage(stage_order[i], cfg, st, event, time)
             rest == run_every_stage(i + 1, cfg, [next EXCEPT !.verdict = "ok"],
                                     event, time)
         IN  IF next.verdict # "ok"
             THEN [rest EXCEPT !.verdict = next.verdict, !.stage = next.stage]
             ELSE rest

RECURSIVE run_stages(_, _, _, _, _)
\* filter: the stages from the i-th on, stopping at the first Err.
run_stages(i, cfg, st, event, time) ==
    IF i > Len(stage_order) THEN st
    ELSE LET next == run_stage(stage_order[i], cfg, st, event, time) IN
         IF next.verdict # "ok" THEN next
         ELSE run_stages(i + 1, cfg, next, event, time)

\* record_filter, and the passed_events += 1 at the end of filter
record_stats(st, verdict) ==
    IF verdict = "ok"
    THEN [st EXCEPT !.total_events = @ + 1, !.passed_events = @ + 1]
    ELSE [st EXCEPT !.total_events = @ + 1, !.filtered_events = @ + 1,
                    !.filter_reasons[verdict] = @ + 1]

\* AdvancedEventFilter::new, called by Aggregator::new
filter_new ==
    /\ filterCfg = NoFilterCfg
    /\ filterCfg' \in FilterConfigs
    /\ UNCHANGED <<dev_trades, frequency_tracker, seen_events, stats, filterNow,
                   lastFilter, traded, dev_carried, last_accepted>>
    /\ UNCHANGED <<pmVars, aggVars, winVars, flowVars, raceVars, buyVars, stratVars, mainVars, sweepVars>>

\* AdvancedEventFilter::filter, as handle_trade_event calls it for a trade
filter ==
    /\ filterCfg # NoFilterCfg
    /\ stats.total_events < MaxFilterEvents
    /\ \E event \in FilterEvents :
       LET before == FilterState(dev_trades, frequency_tracker, seen_events, "ok", "none")
           after  == run_stages(1, filterCfg, before, event, filterNow)
       IN  /\ dev_trades' = after.dev_trades
           /\ frequency_tracker' = after.frequency_tracker
           /\ seen_events' = after.seen_events
           /\ stats' = record_stats(stats, after.verdict)
           /\ lastFilter' = [op |-> "filter", event |-> event, time |-> filterNow,
                             verdict |-> after.verdict, stage |-> after.stage,
                             first_trade |-> event.mint \notin traded,
                             dev_before |-> event.mint \in dev_carried,
                             accepted_before |->
                                {r.time : r \in {q \in last_accepted :
                                              q.hash = calculate_event_hash(event)}}]
           /\ traded' = traded \cup {event.mint}
           /\ dev_carried' = IF event.is_dev_trade
                             THEN dev_carried \cup {event.mint} ELSE dev_carried
           /\ last_accepted' =
                 IF after.verdict = "ok"
                 THEN {r \in last_accepted : r.hash # calculate_event_hash(event)}
                        \cup {[hash |-> calculate_event_hash(event), time |-> filterNow]}
                 ELSE last_accepted
    /\ UNCHANGED <<filterCfg, filterNow>>
    /\ UNCHANGED <<pmVars, aggVars, winVars, flowVars, raceVars, buyVars, stratVars, mainVars, sweepVars>>

\* Utc::now() moves on by half a second.
filter_clock ==
    /\ filterCfg # NoFilterCfg
    /\ filterNow < MaxFilterSteps * 500
    /\ filterNow' = filterNow + 500
    /\ UNCHANGED <<filterCfg, dev_trades, frequency_tracker, seen_events, stats,
                   lastFilter, traded, dev_carried, last_accepted>>
    /\ UNCHANGED <<pmVars, aggVars, winVars, flowVars, raceVars, buyVars, stratVars, mainVars, sweepVars>>

FilterNext ==
    \/ filter_new
    \/ filter
    \/ filter_clock

SpecFilter == Init /\ [][FilterNext]_vars

(***************************************************************************)
(* Position Manager properties.  lastBuy / lastSell / lastAlert describe   *)
(* the call the last step made; positions is the map after that call.      *)
(***************************************************************************)
Held(mint) == contains_key(positions, mint)

C2_AtMostMaxPositions ==
    /\ Cardinality(positions) <= MaxPositions
    /\ (lastBuy.op = "buy" /\ lastBuy.countBefore >= MaxPositions)
          => ~lastBuy.submitted

\* C2 witness: a Buy for a token not held arrived with the map full.
C2_BuyAtCapacity ==
    /\ lastBuy.op = "buy" /\ ~lastBuy.heldBefore
    /\ lastBuy.countBefore = MaxPositions
    /\ Cardinality(positions) = MaxPositions

\* C3 (as claimed): a buy that was sent and not confirmed -- the poll ran
\* into its deadline, or the chain reported the transaction's failure --
\* leaves no Position for the token.
C3_UnconfirmedBuyRecordsNothing ==
    (/\ lastBuy.op = "buy" /\ lastBuy.sent
     /\ (lastBuy.poll = "timeout" \/ lastBuy.reportedFailure))
        => ~Held(lastBuy.mint)

\* C4 (as claimed): an accepted Buy whose transaction is confirmed records
\* exactly one Position for the token.
C4_ConfirmedBuyRecordsOne ==
    (lastBuy.op = "buy" /\ lastBuy.sent /\ lastBuy.poll = "confirmed")
        => Cardinality({p \in positions : p.mint = lastBuy.mint}) = 1

C6_SentSellRemovesPosition ==
    (lastSell.op = "sell" /\ lastSell.sent) => ~Held(lastSell.mint)

\* C6 witness: a sell was sent for a held position, the poll did not
\* confirm it, and the Position is gone.
C6_SentSellNotConfirmed ==
    /\ lastSell.op = "sell" /\ lastSell.held /\ lastSell.sent
    /\ lastSell.poll \in {"failed", "timeout"}
    /\ ~Held(lastSell.mint)

\* C7 (amended): the sell path for a held position with a non-zero on-chain
\* balance ends with the Position removed unless a sell was submitted and
\* could not be sent (building it failed, or every send attempt failed): then
\* the sell path returns the error and the Position stays in the map.
C7_RemovedUnlessSendFailed ==
    (lastSell.op = "sell" /\ lastSell.held /\ lastSell.balance > 0)
        => (Held(lastSell.mint) <=> (lastSell.submitted /\ ~lastSell.sent))

\* C7 witness: the send failed for a held position with a non-zero balance
\* and the Position is still recorded.
C7_SendFailureKeepsPosition ==
    /\ lastSell.op = "sell" /\ lastSell.held /\ lastSell.balance > 0
    /\ lastSell.submitted /\ ~lastSell.sent
    /\ Held(lastSell.mint)

\* C7 (as claimed): the sell path for a held position with a non-zero
\* on-chain balance always ends with the Position removed.
C7_SellPathAlwaysRemoves ==
    (lastSell.op = "sell" /\ lastSell.held /\ lastSell.balance > 0)
        => ~Held(lastSell.mint)

\* C8 (as claimed): the sell path removes a Position without submitting a
\* sell exactly when the on-chain balance is zero, and submits a sell
\* whenever the balance is non-zero.
C8_RemovedUnsoldIffZeroBalance ==
    (lastSell.op = "sell" /\ lastSell.held) =>
        /\ (~Held(lastSell.mint) /\ ~lastSell.submitted) <=> (lastSell.balance = 0)
        /\ lastSell.balance # 0 => lastSell.submitted

\* C9: an alert of severity Critical makes monitor_positions call the sell
\* path for the monitored position, within monitor_positions and so before
\* the dispatch of the received signal, which starts only when every
\* position of the snapshot has been monitored; an alert of severity Medium
\* or High makes no call of the sell path.
C9_CriticalAlertSells ==
    /\ lastAlert.op = "alert" =>
          /\ pc = "alerts"
          /\ lastAlert.severity = Critical =>
                /\ lastAlert.sold
                /\ lastSell.op = "sell" /\ lastSell.via = "alert"
                /\ lastSell.mint = lastAlert.mint
          /\ lastAlert.severity \in {Medium, High} =>
                ~lastAlert.sold /\ lastSell = NoSell
    /\ (lastSell.op = "sell" /\ lastSell.via = "alert")
          => lastAlert.op = "alert" /\ lastSell.severity = Critical
    /\ pc = "dispatch" => todo = {}

\* C9 witness: a Critical alert for a held position, whose sell was sent.
C9_EmergencySell ==
    /\ lastAlert.op = "alert" /\ lastAlert.severity = Critical
    /\ lastSell.op = "sell" /\ lastSell.held /\ lastSell.sent

(***************************************************************************)
(* Aggregator properties.  thresholdEmits counts, per token, the metrics   *)
(* records sent with a threshold_buy_amount.                               *)
(***************************************************************************)
\* C10 (as claimed): over any sequence of Create, Trade and Migrate events
\* and sweeper runs, at most one metrics record of a token carries a
\* threshold_buy_amount, and the threshold flag of a token that has been
\* set is not found unset again.
C10_ThresholdFiresOncePerToken ==
    \A t \in AggTokens :
        /\ thresholdEmits[t] <= 1
        /\ (thresholdEmits[t] >= 1 /\ windows[t].exists)
              => windows[t].threshold_triggered

\* C11 (as claimed): right after an accepted trade has been added to a
\* token's window, no event of the window has a timestamp earlier than the
\* cached current time minus window_duration, in whatever order the
\* timestamps arrived.
C11_NoExpiredEventAfterAdd ==
    \A t \in AggTokens :
        (lastMetrics.op = "metrics" /\ lastMetrics.mint = t) =>
            \A i \in 1..Len(windows[t].events) :
                windows[t].events[i].timestamp >= now - config.window_duration_secs

IsSuffix(s, all) ==
    /\ Len(s) <= Len(all)
    /\ s = SubSeq(all, Len(all) - Len(s) + 1, Len(all))

\* C12: after every add the window holds at most window_max_events events,
\* and what an add leaves is a suffix of the events in their order of
\* arrival -- the old events followed by the added one -- so every event
\* removed, for the cap as for the age, arrived before every event kept.
C12_CapKeepsNewestArrivals ==
    /\ [](\A t \in AggTokens :
            windows[t].exists => Len(windows[t].events) <= config.window_max_events)
    /\ [][\A t \in AggTokens :
            (lastAdd'.op = "add" /\ lastAdd'.mint = t) =>
                \E event \in UnitEvents(now) :
                    IsSuffix(windows'[t].events, Append(windows[t].events, event))]_vars

\* C12 witness: an add found the window full and removed an event for the cap.
C12_CapRemovedAnEvent ==
    /\ lastAdd.op = "add" /\ lastAdd.capped > 0
    /\ Len(windows[lastAdd.mint].events) = config.window_max_events

(***************************************************************************)
(* Pipeline properties.  lastFlow describes the step just taken.           *)
(***************************************************************************)
RECURSIVE trades_of(_)
trades_of(chan) ==
    IF chan = <<>> THEN <<>> ELSE <<Head(chan).trade>> \o trades_of(Tail(chan))

InSeq(x, seq) == \E i \in 1..Len(seq) : seq[i] = x

\* The trades whose record has left handle_trade_event's computation, oldest
\* first: received by Strategy, buffered in the channel, or at the send.
Emitted ==
    received \o trades_of(metrics_chan)
             \o (IF sending = NoMetrics THEN <<>> ELSE <<sending.trade>>)

\* C13: a trade rejected by a filter stage, whichever it is, emits no metrics
\* record and leaves every MintWindow and every EventHistory as it was.
C13_RejectedTradeChangesNothing ==
    [][(lastFlow'.op = "pop" /\ lastFlow'.kind = "Trade"
          /\ lastFlow'.verdict # "pass")
       => /\ windows' = windows
          /\ event_history' = event_history
          /\ sending' = NoMetrics
          /\ metrics_chan' = metrics_chan
          /\ Emitted' = Emitted]_vars

C13_RejectedWithOpenWindow ==
    /\ lastFlow.op = "pop"
    /\ lastFlow.kind = "Trade"
    /\ lastFlow.verdict = "duplicate"
    /\ \E mint \in AggTokens :
         windows[mint].exists /\ Len(windows[mint].events) > 0

C15_FullRingDropsNewEvent ==
    /\ [](Len(event_queue) <= EventQueueCapacity)
    /\ [](produced < MaxProduced => ENABLED handle_update)
    /\ [][(lastFlow'.op = "push" /\ Len(event_queue) = EventQueueCapacity)
          => /\ event_queue' = event_queue
             /\ lastFlow'.is_err
             /\ produced' = produced + 1]_vars

C15_PushOnFullRing ==
    /\ lastFlow.op = "push"
    /\ lastFlow.is_err
    /\ Len(event_queue) = EventQueueCapacity

\* C16: the metrics channel is bounded, the Aggregator stays at the send while
\* it is full, no record is lost on the way, and Strategy gets every record.
C16_EveryRecordReachesStrategy ==
    /\ [](Len(metrics_chan) <= MetricsCapacity)
    /\ []((sending # NoMetrics /\ Len(metrics_chan) = MetricsCapacity)
            => /\ ~ENABLED metrics_send
               /\ ~ENABLED pop_trade
               /\ ~ENABLED pop_create
               /\ ~ENABLED pop_migrate)
    /\ [](\A id \in 1..MaxProduced :
            InSeq(id, accepted) => InSeq(id, Emitted))
    /\ \A id \in 1..MaxProduced :
            InSeq(id, accepted) ~> InSeq(id, received)

C16_SuspendedOnFullChannel ==
    /\ sending # NoMetrics
    /\ Len(metrics_chan) = MetricsCapacity
    /\ Len(received) >= 1

(***************************************************************************)
(* Race properties.  lastRound is the latest round of the current call.    *)
(***************************************************************************)
RaceSucceeded == lastRound.op = "round" /\ lastRound.result.success

OkClients(outcomes) == {i \in DOMAIN outcomes : outcomes[i].kind = "ok"}

\* C17: a parallel round reports success whenever a submitter succeeded
\* within the timeout, and the result it reports is the successful response
\* that completed first.
C17_FirstCompletedSuccessWins ==
    (lastRound.op = "round" /\ raceCfg.parallel_send)
    => /\ lastRound.result.success <=> OkClients(lastRound.outcomes) # {}
       /\ lastRound.result.success
            => \A i \in OkClients(lastRound.outcomes) :
                  lastRound.result.latency <= lastRound.outcomes[i].latency

\* C18: with submitters configured the racer always runs an initial round, a
\* failed round is followed by a 200 ms wait and another round for at most
\* max_retries further rounds, and no round follows a success.
C18_InitialRoundThenRetries ==
    /\ (raceCfg.swqos /\ raceCfg.clients > 0
          /\ (racePc = "lightspeed" \/ (racePc = "done" /\ sentVia.via # "none")))
       => rounds >= 1
    /\ rounds <= 1 + raceCfg.max_retries
    /\ rounds >= 1 => waits \in {rounds - 1, rounds}
    /\ RaceSucceeded => racePc = "done"

\* C19: when every round of the race failed the same transaction goes to the
\* LightSpeed path, and that path is never used after a round succeeded.
C19_FallbackIffRaceFailed ==
    /\ (racePc = "lightspeed" \/ sentVia.via = "lightspeed") => ~RaceSucceeded
    /\ (racePc = "done" /\ sentVia.via # "none" /\ ~RaceSucceeded)
          => sentVia.via = "lightspeed"
    /\ (racePc = "done" /\ raceCfg.swqos /\ rounds >= 1 /\ ~RaceSucceeded)
          => sentVia.via = "lightspeed"
    /\ sentVia.via # "none" => sentVia.transaction = transaction
    /\ lastRound.op = "round" => lastRound.transaction = transaction
    /\ RaceSucceeded => sentVia.via = "swqos"

C19_FallbackAfterFailedRetries ==
    /\ racePc = "done"
    /\ sentVia.via = "lightspeed"
    /\ rounds >= 2
    /\ ~RaceSucceeded

(***************************************************************************)
(* Pre-flight check.  lastExec describes the execute_buy call just made.   *)
(***************************************************************************)
\* C20: a buy whose wallet balance is below trade size + LightSpeed tip + the
\* SWQOS tips of its transaction is aborted before anything is transmitted
\* and leaves the positions map as it was.
C20_InsufficientBalanceAborts ==
    [][(lastExec'.op = "buy"
          /\ lastExec'.balance < lastExec'.sol_amount + lastExec'.tips)
       => /\ ~lastExec'.transmitted
          /\ lastExec'.stage \in {"curve_err", "balance_err", "insufficient"}
          /\ positions' = positions]_vars

C20_AbortedForSwqosTips ==
    /\ lastExec.op = "buy"
    /\ lastExec.stage = "insufficient"
    /\ lastExec.balance >= lastExec.sol_amount + MaxTip
    /\ lastExec.balance < lastExec.sol_amount + lastExec.tips


\* C21: every metrics record Strategy consumes yields a pair (the record and
\* one signal of Buy, Sell, Hold, None) on its way to the Position Manager,
\* so that the Position Manager's per-pair steps run for the record.
C21_EveryRecordYieldsPair ==
    lastStrat.op = "consume" =>
        /\ stratPending # NoPending
        /\ stratPending.metrics.mint = lastStrat.mint
        /\ stratPending.signal = lastStrat.signal


\* C25: a held position whose hold duration has reached the maximum is sold:
\* once Strategy has consumed a record for its token, the Position Manager
\* runs the exit evaluator on it and invokes the sell path.
C25_MaxHoldIsSold ==
    (lastStrat.op = "consume" /\ lastStrat.holdMaxed)
        ~> (lastPair.op = "pair" /\ lastPair.exitEvaluated /\ lastPair.sellInvoked)

\* The number of reasons detect needs in a mode.
ReasonsNeeded(strict_mode) == IF strict_mode THEN 3 ELSE 1

C22_ExitedTaskIsRestarted ==
    \A t \in TaskNames : (tasks[t] = "exited") ~> (tasks[t] # "exited")

\* C23: the event source waits 5 ms before the first retry, twice as long
\* after each further consecutive failure, and never more than 5 s.
C23_BackoffStartsAtFiveMs ==
    tasks["grpc"] = "backoff" =>
        /\ delay_ms <= 5000
        /\ failures = 1 => delay_ms = 5
        /\ failures > 1 =>
              delay_ms = Min(2 * reconnect_delay_from_base(failures - 1), 5000)


\* The acceleration the two halves of a window give, split at Len \div 2:
\* +inf if the first half's inflow is <= 0 and the second's > 0, 0 if both
\* are <= 0, second / first otherwise.
HalvesRule(events) ==
    LET mid    == Len(events) \div 2
        first  == signed_inflow(SubSeq(events, 1, mid))
        second == signed_inflow(SubSeq(events, mid + 1, Len(events)))
    IN  IF first <= 0 /\ second > 0 THEN [kind |-> "inf", num |-> 0, den |-> 1]
        ELSE IF first <= 0 THEN [kind |-> "zero", num |-> 0, den |-> 1]
        ELSE [kind |-> "ratio", num |-> second, den |-> first]

\* C24 (as stated): for every window the acceleration is the one the halves
\* rule gives.
C24_HalvesRuleForEveryWindow ==
    lastEval.op = "calculate_acceleration" =>
        lastEval.result = HalvesRule(lastEval.events)

\* C24 (amended): a window of fewer than 4 events has acceleration 0; for a
\* window of 4 events or more the acceleration is the one the halves rule
\* gives.
C24_HalvesRuleFromFourEvents ==
    lastEval.op = "calculate_acceleration" =>
        lastEval.result = IF Len(lastEval.events) < 4
                          THEN [kind |-> "zero", num |-> 0, den |-> 1]
                          ELSE HalvesRule(lastEval.events)

C24_InfiniteAcceleration ==
    /\ lastEval.op = "calculate_acceleration"
    /\ Len(lastEval.events) >= 4
    /\ lastEval.result.kind = "inf"

\* The price rules of the exit evaluator: price >= entry * multiplier and
\* price <= entry * multiplier, with price = sol reserves / token reserves.
PriceAtLeast(e, multiplier) ==
    e.m.latest_virtual_sol_reserves * 100
        >= e.entry_price_sol * multiplier * e.m.latest_virtual_token_reserves

PriceAtMost(e, multiplier) ==
    e.m.latest_virtual_sol_reserves * 100
        <= e.entry_price_sol * multiplier * e.m.latest_virtual_token_reserves

HasPrice(e) ==
    e.m.latest_virtual_sol_reserves > 0 /\ e.m.latest_virtual_token_reserves > 0

\* The first applicable rule of: hold < min -> Hold; hold >= max -> Sell;
\* take profit -> Hold if slippage > max, else Sell; stop loss -> Hold if
\* slippage > 2 * max, else Sell; buy_ratio < threshold -> Sell; else Hold.
FirstExitRule(e, take_profit, stop_loss) ==
    IF e.hold_duration_secs < e.triggers.min_hold_duration_secs THEN "Hold"
    ELSE IF e.hold_duration_secs >= e.triggers.max_hold_duration_secs THEN "Sell"
    ELSE IF take_profit
    THEN (IF e.m.slippage > e.max_slippage_percent THEN "Hold" ELSE "Sell")
    ELSE IF stop_loss
    THEN (IF e.m.slippage > 2 * e.max_slippage_percent THEN "Hold" ELSE "Sell")
    ELSE IF e.m.buy_ratio < e.triggers.momentum_decay_threshold THEN "Sell"
    ELSE "Hold"

\* C26 (as stated): evaluate_exit_conditions returns the outcome of the
\* first applicable rule, the take-profit rule applying whenever
\* price >= entry * take_profit_multiplier and the stop-loss rule whenever
\* price <= entry * stop_loss_multiplier (stated for the records that have
\* a price).
C26_FirstRuleOnPriceAlone ==
    (lastEval.op = "evaluate_exit_conditions" /\ HasPrice(lastEval)) =>
        lastEval.result =
            FirstExitRule(lastEval,
                          PriceAtLeast(lastEval, lastEval.triggers.take_profit_multiplier),
                          PriceAtMost(lastEval, lastEval.triggers.stop_loss_multiplier))

\* C26 (amended): the same order of rules, the two price rules applying only
\* to a record with both reserves positive, and each only when its
\* multiplier is greater than 0.
C26_FirstRuleWithGuardedPriceRules ==
    lastEval.op = "evaluate_exit_conditions" =>
        lastEval.result =
            FirstExitRule(lastEval,
                          /\ HasPrice(lastEval)
                          /\ lastEval.triggers.take_profit_multiplier > 0
                          /\ PriceAtLeast(lastEval, lastEval.triggers.take_profit_multiplier),
                          /\ HasPrice(lastEval)
                          /\ lastEval.triggers.stop_loss_multiplier > 0
                          /\ PriceAtMost(lastEval, lastEval.triggers.stop_loss_multiplier))

C26_StopLossDeferredOnSlippage ==
    /\ lastEval.op = "evaluate_exit_conditions"
    /\ lastEval.hold_duration_secs >= lastEval.triggers.min_hold_duration_secs
    /\ lastEval.hold_duration_secs < lastEval.triggers.max_hold_duration_secs
    /\ HasPrice(lastEval)
    /\ lastEval.triggers.stop_loss_multiplier > 0
    /\ PriceAtMost(lastEval, lastEval.triggers.stop_loss_multiplier)
    /\ lastEval.m.slippage > 2 * lastEval.max_slippage_percent
    /\ lastEval.m.buy_ratio < lastEval.triggers.momentum_decay_threshold
    /\ lastEval.result = "Hold"

\* C27: evaluate_metrics decides by first match: a threshold_buy_amount ->
\* Buy; else first wave (enabled, event_count <= 5, net inflow >= base *
\* multiplier, buy ratio >= first-wave ratio) -> Buy; else event_count < 3 ->
\* None; else the dynamic scorer if AdvancedMetrics is present; else the
\* legacy fallback.
C27_FirstMatchOrder ==
    lastEval.op = "evaluate_metrics" =>
        LET m   == lastEval.m
            cfg == lastEval.cfg
        IN  lastEval.result =
              IF m.threshold_buy_amount # None THEN "Buy"
              ELSE IF /\ cfg.enable_first_wave_sniper
                      /\ m.event_count <= 5
                      /\ m.net_inflow_sol * 100
                           >= cfg.net_inflow_threshold_sol * cfg.first_wave_inflow_multiplier
                      /\ m.buy_ratio >= cfg.first_wave_buy_ratio
              THEN "Buy"
              ELSE IF m.event_count < 3 THEN "None"
              ELSE IF m.advanced.present
              THEN (IF evaluate_buy(m, m.advanced, BalancedTriggers).should_buy
                    THEN "Buy" ELSE "None")
              ELSE legacy_strategy(m, cfg)

C27_TooFewEventsBeforeScorer ==
    /\ lastEval.op = "evaluate_metrics"
    /\ lastEval.m.threshold_buy_amount = None
    /\ ~lastEval.cfg.enable_first_wave_sniper
    /\ lastEval.m.event_count < 3
    /\ lastEval.m.advanced.present
    /\ evaluate_buy(lastEval.m, lastEval.m.advanced, BalancedTriggers).should_buy
    /\ lastEval.result = "None"

\* The checks that passed among the eight of a call of evaluate_buy.
Passing(e) == {i \in DOMAIN e.conditions : e.conditions[i]}

RECURSIVE WeightSum(_)
\* the sum of the weights 0.20, 0.20, 0.15, 0.10, 0.10, 0.10, 0.10, 0.05 (in
\* hundredths) of the checks in passing
WeightSum(passing) ==
    IF passing = {} THEN 0
    ELSE LET i == CHOOSE j \in passing : TRUE IN
         <<20, 20, 15, 10, 10, 10, 10, 5>>[i] + WeightSum(passing \ {i})

\* C28: the dynamic scorer returns Buy iff at least 70% of its 8 checks pass,
\* and its confidence is the sum of the weights of exactly the passing ones.
C28_SeventyPercentAndWeights ==
    lastEval.op = "evaluate_buy" =>
        /\ Len(lastEval.conditions) = 8
        /\ lastEval.result.should_buy
              <=> Cardinality(Passing(lastEval)) * 100 >= 70 * 8
        /\ lastEval.result.confidence = WeightSum(Passing(lastEval))

C28_FivePassNoBuy ==
    /\ lastEval.op = "evaluate_buy"
    /\ Cardinality(Passing(lastEval)) = 5
    /\ ~lastEval.result.should_buy
    /\ lastEval.result.confidence > 50

\* C29: the thresholds the scorer's checks are compared against are the
\* mode's thresholds times 0.8 when volatility > 0.15, times 1.2 when
\* volatility < 0.05, times 1.0 otherwise.
C29_ThresholdsScaledByVolatility ==
    lastEval.op = "evaluate_buy" =>
        LET factor == IF lastEval.adv.volatility > 15 THEN 80
                      ELSE IF lastEval.adv.volatility < 5 THEN 120
                      ELSE 100
        IN  \A field \in DOMAIN lastEval.mode :
               lastEval.result.triggers[field] * 100 = lastEval.mode[field] * factor


\* C31: a token whose trades arrive no faster than max_frequency per second
\* is never rejected by the frequency stage, starting with the first trade
\* ever seen for the token.
C31_FirstTradePassesFrequency ==
    (lastFilter.op = "filter" /\ lastFilter.first_trade)
        => lastFilter.verdict # "AbnormalFrequency"

\* C32: with require_dev_trade, a trade (that is within the amount range) is
\* rejected as MissingDevTrade iff neither it nor any earlier trade of its
\* token carried is_dev_trade, whatever the filter did with the earlier one.
C32_MissingDevTradeIffNoneCarried ==
    (lastFilter.op = "filter" /\ filterCfg.require_dev_trade
        /\ lastFilter.stage # "amount")
        => (lastFilter.verdict = "MissingDevTrade"
              <=> (~lastFilter.event.is_dev_trade /\ ~lastFilter.dev_before))

\* C33: with duplicate detection, a trade that reaches the duplicate stage is
\* rejected as DuplicateEvent iff a trade of the same fingerprint was
\* accepted less than duplicate_window_secs earlier; a rejected duplicate
\* does not count as accepted, so it does not extend the window.
C33_DuplicateWithinWindowOfAccepted ==
    (lastFilter.op = "filter" /\ filterCfg.enable_duplicate_detection
        /\ lastFilter.stage = "duplicate")
        => (lastFilter.verdict = "DuplicateEvent"
              <=> \E t \in lastFilter.accepted_before :
                     lastFilter.time - t < filterCfg.duplicate_window_secs * 1000)

C33_AcceptedAgainAfterWindow ==
    /\ lastFilter.op = "filter" /\ filterCfg.enable_duplicate_detection
    /\ lastFilter.verdict = "ok"
    /\ lastFilter.accepted_before # {}
    /\ stats.filter_reasons["DuplicateEvent"] > 0

\* The stages before the frequency stage, and those before the duplicate stage.
BeforeFrequency == {"amount", "dev", "blacklist", "whitelist", "time"}
BeforeDuplicate == BeforeFrequency \cup {"frequency"}

\* C34: the stages run in the order amount, dev trade, blacklist, whitelist,
\* time window, frequency, duplicate and stop at the first rejection: a call
\* of filter adds 1 to total_events and either 1 to passed_events or 1 to
\* filtered_events and to exactly one reason counter; a rejection leaves the
\* state of the later stages alone; total_events = passed_events +
\* filtered_events throughout.
C34_ShortCircuitInOrder ==
    /\ [](stats.total_events = stats.passed_events + stats.filtered_events)
    /\ [][stats'.total_events # stats.total_events =>
            LET event   == lastFilter'.event
                verdict == lastFilter'.verdict
                stage   == lastFilter'.stage
                amount_out == \/ event.sol_amount < filterCfg.min_sol_amount
                              \/ event.sol_amount > filterCfg.max_sol_amount
                dev_missing == /\ filterCfg.require_dev_trade
                               /\ ~event.is_dev_trade
                               /\ event.mint \notin dev_trades
            IN  /\ stats'.total_events = stats.total_events + 1
                /\ verdict = "ok" =>
                      /\ stats'.passed_events = stats.passed_events + 1
                      /\ stats'.filtered_events = stats.filtered_events
                      /\ stats'.filter_reasons = stats.filter_reasons
                /\ verdict # "ok" =>
                      /\ stats'.passed_events = stats.passed_events
                      /\ stats'.filtered_events = stats.filtered_events + 1
                      /\ stats'.filter_reasons =
                            [stats.filter_reasons EXCEPT ![verdict] = @ + 1]
                /\ amount_out <=> stage = "amount"
                /\ (~amount_out /\ dev_missing) <=> stage = "dev"
                /\ (~amount_out /\ ~dev_missing /\ filterCfg.enable_whitelist)
                      <=> stage = "whitelist"
                /\ (verdict # "ok" /\ stage = "amount") => dev_trades' = dev_trades
                /\ (verdict # "ok" /\ stage \in BeforeFrequency) =>
                      frequency_tracker' = frequency_tracker
                /\ (verdict # "ok" /\ stage \in BeforeDuplicate) =>
                      seen_events' = seen_events]_vars

C34_RejectedBeforeFrequency ==
    /\ lastFilter.op = "filter"
    /\ lastFilter.verdict = "NotWhitelisted"
    /\ lastFilter.event.is_dev_trade
    /\ stats.filter_reasons["NotWhitelisted"] = 1
    /\ stats.filtered_events > 1


\* C35: the threshold trigger fires on an accepted trade iff it is enabled,
\* the flag is unset, the window's age since creation is at most the
\* observation window and the cumulative buy SOL has reached the threshold;
\* when it fires the flag is set and threshold_buy_amount is threshold x
\* ratio clamped into [min, max].
C35_ThresholdTriggerRule ==
    lastEval.op = "check_threshold_trigger" =>
        LET cfg   == lastEval.cfg
            fires == lastEval.threshold_buy_amount # None
            raw   == cfg.threshold_cumulative_buy_sol * cfg.threshold_buy_ratio
        IN  /\ fires <=>
                  /\ cfg.enable_threshold_trigger
                  /\ ~lastEval.before.threshold_triggered
                  /\ lastEval.time_ms - lastEval.before.created_at
                        <= cfg.threshold_observation_window_secs * 1000
                  /\ lastEval.cumulative_buys_sol >= cfg.threshold_cumulative_buy_sol
            /\ fires =>
                  /\ lastEval.window.threshold_triggered
                  /\ lastEval.threshold_buy_amount =
                        IF raw < cfg.threshold_min_buy_amount_sol
                        THEN cfg.threshold_min_buy_amount_sol
                        ELSE IF raw > cfg.threshold_max_buy_amount_sol
                             THEN cfg.threshold_max_buy_amount_sol
                             ELSE raw


C37_TipsOfHighestPriority ==
    (/\ lastEval.op = "get_all_tip_instructions"
     /\ Len(lastEval.clients) > lastEval.config.max_tips) =>
        LET cfg  == lastEval.config
            tips == lastEval.tip_instructions
            by_priority == sort_by_priority(cfg.services)
        IN  /\ Len(tips) = cfg.max_tips
            /\ \A i \in 1..Len(tips) :
                  /\ tips[i].tip_account_of = by_priority[i].service_type
                  /\ tips[i].lamports = by_priority[i].tip_lamports


\* C38: the token_amount of every recorded Position equals the wallet's
\* on-chain token balance read after the buy was confirmed; a value of the
\* estimator is never recorded.
C38_RecordedAmountIsChainBalance ==
    (/\ lastBuy.op = "buy" /\ lastBuy.poll = "confirmed"
     /\ ~lastBuy.heldBefore
     /\ contains_key(positions, lastBuy.mint)) =>
        get(positions, lastBuy.mint).token_amount = chainBalance[lastBuy.mint]


\* C39: every submitter of every round, every retry round and the LightSpeed
\* fallback are handed the transaction the call was given, so the sends of
\* one Buy carry one signature and at most one buy can land.
C39_OneTransactionPerCall ==
    /\ sent_transactions \subseteq {transaction}
    /\ Cardinality(sent_transactions) <= 1
    /\ (rounds >= 1 \/ sentVia.via = "lightspeed") => sent_transactions = {transaction}

C39_RetriedAndFellBack ==
    /\ racePc = "done"
    /\ raceCfg.swqos /\ raceCfg.clients >= 2 /\ raceCfg.parallel_send
    /\ rounds >= 2
    /\ sentVia.via = "lightspeed" /\ sentVia.ok
    /\ sent_transactions = {transaction}


\* C40: once a sell has been sent for a position, no further sell is
\* submitted for the token until a new buy is recorded, also when momentum
\* decay, several Critical alerts and a Hold-exit fire for the same pair: a
\* sent sell leaves no Position, a sell request that finds no Position
\* submits nothing and changes nothing, and only a recorded buy adds a
\* Position.
C40_NoSecondSell ==
    /\ []((lastSell.op = "sell" /\ lastSell.sent)
            => ~contains_key(positions, lastSell.mint))
    /\ [][lastSell'.op = "sell" =>
            /\ lastSell'.held <=> contains_key(positions, lastSell'.mint)
            /\ lastSell'.submitted => lastSell'.held
            /\ ~lastSell'.held =>
                  /\ positions' = positions
                  /\ chainBalance' = chainBalance]_vars
    /\ [][\A mint \in Tokens :
            (~contains_key(positions, mint) /\ contains_key(positions', mint))
                => (lastBuy'.op = "buy" /\ lastBuy'.mint = mint
                      /\ lastBuy'.poll = "confirmed")]_vars
    /\ [][(lastSell.op = "sell" /\ lastSell.sent /\ lastSell'.op = "sell"
             /\ lastSell'.mint = lastSell.mint)
            => ~lastSell'.submitted]_vars

\* A second Critical alert of the position that the first one sold.
C40_SecondCriticalAlertSubmitsNothing ==
    /\ pc = "alerts"
    /\ lastAlert.op = "alert" /\ lastAlert.severity = Critical
    /\ lastSell.op = "sell" /\ lastSell.via = "alert"
    /\ lastSell.mint = monitored.mint
    /\ ~lastSell.held /\ ~lastSell.submitted
    /\ chainBalance[lastSell.mint] = 0

====
